---- MODULE Spec2Model ----
(***************************************************************************)
(* PixelPrompt: the LLM client (request queue, one background worker,      *)
(* response queue) and the engine handlers that feed and drain it.         *)
(*                                                                         *)
(* The main thread and the worker threads are interleaved at the           *)
(* granularity of their accesses to shared data: the running flag, the    *)
(* worker_thread handle and the two queues.  Queue operations are atomic  *)
(* (queue.Queue locks internally).                                         *)
(***************************************************************************)
EXTENDS Naturals, Integers, Sequences, FiniteSets, TLC

----------------------------------------------------------------------------
(* Bounds of the model *)

\* Number of send_message calls explored.
MaxRequests == 2
\* Number of threading.Thread objects start() may create.
MaxThreads == 2
\* Number of chunks the stream of the basic provider yields before it must
\* end or raise.
MaxChunks == 1
\* Number of send_message calls explored where the contents of histories and
\* streams vary.
MaxTracedRequests == 1
\* Number of chunks the stream of the fake adapter yields before it must end
\* or raise.
MaxStreamChunks == 2
\* The two safeguards of OllamaProvider.send_message, MAX_RESPONSE_CHUNKS
\* (10000 in the source) and MAX_RESPONSE_LENGTH (100000 characters in the
\* source), at a size the model's streams can exceed.
OllamaChunkLimit == 2
OllamaLengthLimit == 4
\* max_history (pairs of turns) of a caller that keeps a conversation.
CallerMaxHistory == 1
\* Number of times a caller replaces its history list by a trimmed one.
MaxRebinds == 1
\* Longest conversation_history followed before an append.
MaxTurns == 4
\* Largest dt of one update, in quarter seconds.
MaxDt == 2
\* Largest state_timer (quarter seconds) from which an agent is still updated.
MaxTimer == 4
\* Number of set_state calls made from outside the agent.
MaxSetStates == 2
\* Number of random targets drawn for one agent.
MaxDraws == 2
\* Number of entries into Talking or Error made in a row on one agent.
MaxEpisodes == 3

----------------------------------------------------------------------------
(* Values *)

\* Python's None, where a string may stand.
None == "None"
\* None as the value of worker_thread.
NoThread == 0

\* The agents of the configuration (config['agents']), by id.
AgentIds == {"a1", "a2"}

\* The first agent of engine.agents (main.py auto-selects it).
FirstAgent == "a1"

\* config.get('provider', 'unknown') / config.get('model', 'unknown') per agent.
AgentProvider == [a \in AgentIds |-> IF a = "a1" THEN "ollama" ELSE "unknown"]
AgentModel == [a \in AgentIds |-> IF a = "a1" THEN "llama3.2:3b" ELSE "unknown"]

\* User message texts.
Messages == {"hi"}

\* A provider instance as the worker sees it: its display name, the text
\* chunks its send_message stream may yield, how many of them at most, and
\* the str(e) of the exceptions the stream may raise.  is_available() may
\* return either value.
OllamaProvider(chunks, max_chunks, errors) ==
    [ name |-> "Ollama", chunks |-> chunks, max_chunks |-> max_chunks,
      errors |-> errors, records_calls |-> FALSE ]

\* A fake adapter: a BaseLLMProvider that also records, per request, what was
\* asked of it and what it yielded (provider_calls).
FakeProvider(chunks, max_chunks, errors) ==
    [ name |-> "Fake", chunks |-> chunks, max_chunks |-> max_chunks,
      errors |-> errors, records_calls |-> TRUE ]

\* The providers dict handed to LLMClient: main.py builds it from the providers
\* that could be constructed, and only Ollama can.
BasicProviders ==
    [ p \in {"ollama"} |->
        OllamaProvider({"Hel"}, MaxChunks, {"Request timed out after 30s"}) ]

\* One non-empty line of the HTTP response body of /api/chat: a JSON object
\* with message.content and done, or a line json.loads rejects.
ContentLine(content, done) == [kind |-> "json", content |-> content, done |-> done]
JunkLine == [kind |-> "junk", content |-> "", done |-> FALSE]

\* The lines an Ollama server may send.
ServerLines ==
    { ContentLine(c, d) : c \in {"", "ab", "abcde"}, d \in BOOLEAN } \cup { JunkLine }

\* An OllamaProvider whose send_message is followed line by line; the
\* warnings it logs when it truncates are kept in provider_calls.
OllamaOverHttp(lines, chunk_limit, length_limit, errors) ==
    [ name |-> "Ollama", lines |-> lines, chunk_limit |-> chunk_limit,
      length_limit |-> length_limit, errors |-> errors, records_calls |-> TRUE ]

OllamaProviders ==
    [ p \in {"ollama"} |->
        OllamaOverHttp(ServerLines, OllamaChunkLimit, OllamaLengthLimit,
                       {"Request timed out after 30s"}) ]

\* The providers dict of a client built over a fake adapter, registered under
\* the name the first agent uses.  Its stream may yield empty chunks.
StreamProviders ==
    [ p \in {"ollama"} |->
        FakeProvider({"Hel", "lo", ""}, MaxStreamChunks, {"Request timed out after 30s"}) ]

ThreadIds == 1..MaxThreads
RequestIds == 1..MaxRequests

----------------------------------------------------------------------------
VARIABLES
    providers,        \* LLMClient.providers: provider name -> instance
    running,          \* LLMClient.running
    worker_thread,    \* LLMClient.worker_thread: NoThread or a thread id
    request_queue,    \* LLMClient.request_queue, head first
    response_queue,   \* LLMClient.response_queue, head first
    threads,          \* every Thread object start() created: where it is in _worker_loop
    mainpc,           \* where the main thread is
    last_response,    \* the value the last get_response() returned
    agents,           \* engine.agents, by id
    selected_agent,   \* engine.selected_agent
    heap,             \* the list objects the callers of send_message own, by object id
    live,             \* per agent: the object id of the list its caller passes as history
    provider_calls,   \* what a provider under observation recorded, per request
    submitted,        \* history: the requests send_message queued so far, in order
    polled,           \* history: request numbers of the responses get_response returned, in order
    failed,           \* history: the requests whose processing raised, each with the
                      \* number of chunks its stream had yielded
    observed          \* history: what a caller of Agent's methods has done so far

vars == << providers, heap, live, provider_calls, running, worker_thread, request_queue,
           response_queue, threads, mainpc, last_response, agents, selected_agent, submitted,
           polled, failed, observed >>

----------------------------------------------------------------------------
(* Text helpers (Python str operations) *)

Min(a, b) == IF a < b THEN a ELSE b
Max(a, b) == IF a > b THEN a ELSE b

\* ''.join(chunks)
RECURSIVE Join(_)
Join(chunks) == IF chunks = << >> THEN "" ELSE Head(chunks) \o Join(Tail(chunks))

\* sub in s
Contains(s, sub) ==
    \E i \in 1..(Len(s) + 1) :
        /\ i + Len(sub) - 1 <= Len(s)
        /\ SubSeq(s, i, i + Len(sub) - 1) = sub

UpperChars == << "A","B","C","D","E","F","G","H","I","J","K","L","M",
                 "N","O","P","Q","R","S","T","U","V","W","X","Y","Z" >>
LowerChars == << "a","b","c","d","e","f","g","h","i","j","k","l","m",
                 "n","o","p","q","r","s","t","u","v","w","x","y","z" >>

LowerChar(c) ==
    IF \E i \in 1..26 : UpperChars[i] = c
    THEN LowerChars[CHOOSE i \in 1..26 : UpperChars[i] = c]
    ELSE c

\* s.lower()
RECURSIVE Lower(_)
Lower(s) == IF Len(s) = 0 THEN ""
            ELSE LowerChar(SubSeq(s, 1, 1)) \o Lower(SubSeq(s, 2, Len(s)))

\* s[:n]
Prefix(s, n) == SubSeq(s, 1, Min(n, Len(s)))

----------------------------------------------------------------------------
(* Python lists: objects with identity *)

\* A reference to a list: a list object of the heap, shared with whoever holds
\* the same reference (ptr is its object id), or a list object that nothing
\* else refers to, written by its items (ptr is 0).
Pointer(id) == [ptr |-> id, items |-> << >>]
Private(items) == [ptr |-> 0, items |-> items]

\* the items of the list a reference leads to, now
Items(ref) == IF ref.ptr = 0 THEN ref.items ELSE heap[ref.ptr]

\* list.copy(): a new list object with the same items
CopyList(ref) == Private(Items(ref))

\* list.append(x), in place: the reference afterwards, and the heap afterwards
RefAfterAppend(ref, x) == IF ref.ptr = 0 THEN Private(Append(ref.items, x)) ELSE ref
HeapAfterAppend(ref, x) ==
    IF ref.ptr = 0 THEN heap ELSE [heap EXCEPT ![ref.ptr] = Append(@, x)]

\* The list object each agent's caller passes to send_message as history.
LiveObject == [a \in AgentIds |-> IF a = "a1" THEN 1 ELSE 2]

----------------------------------------------------------------------------
(* Agent (entities.py) *)

\* Positions are floats (pygame Vector2); the model keeps every coordinate
\* in thousandths of a pixel.
Milli == 1000

\* Time is counted in quarter seconds: every dt is a whole number of them.
TicksPerSecond == 4

\* config.get('spawn_position', [640, 360]) per agent.
SpawnPosition == [a \in AgentIds |->
                    IF a = "a1" THEN [x |-> 640 * Milli, y |-> 360 * Milli]
                                ELSE [x |-> 100 * Milli, y |-> 100 * Milli]]

\* A world bounds dict as the signature of Agent.__init__ asks for (the
\* camera bounds of the default configuration).
WorldBounds ==
    [ kind |-> "dict",
      min_x |-> 0, min_y |-> 0, max_x |-> 2000 * Milli, max_y |-> 2000 * Milli ]

\* What main.py passes as world_bounds instead: the World object itself,
\* which holds the same four values as attributes and has no __getitem__.
WorldObject == [WorldBounds EXCEPT !.kind = "World"]

\* world_bounds['min_x'] works on a dict and raises TypeError on a World
Subscriptable(world_bounds) == world_bounds.kind = "dict"

\* margin in _pick_random_target
TargetMargin == 20
\* largest random offset in _pick_random_target
TargetOffset == 64
\* pace_distance in set_state / _update_thinking
PaceDistance == 64
\* move_speed, pixels per second
MoveSpeed == 50
\* pace_speed = move_speed * 3
PaceFactor == 3
\* bob_speed, radians per second, and bob_amplitude, pixels
BobSpeed == 4
BobAmplitude == 2
\* the shake of _update_error: 3 * sin(state_timer * 20), for 2.0 seconds
ShakeAmplitude == 3
ShakeSpeed == 20
ErrorSeconds == 2
\* random.uniform(3.0, 5.0) in _update_idle
IdleWaitMin == 3
IdleWaitMax == 5

\* round(1000 * math.sin(k)) for k = 0 .. 48 radians
SinTable ==
    << 0, 841, 909, 141, -757, -959, -279, 657, 989, 412, -544, -1000, -537,
       420, 991, 650, -288, -961, -751, 150, 913, 837, -9, -846, -906, -132,
       763, 956, 271, -664, -988, -404, 551, 1000, 529, -428, -992, -644,
       296, 964, 745, -159, -917, -832, 18, 851, 902, 124, -768 >>

\* math.sin(radians), in thousandths
Sin(radians) == SinTable[radians + 1]

\* no speech bubble: the attribute is set by the engine, never by Agent.__init__
NoBubble == [text |-> None, is_error |-> FALSE]

\* Agent.__init__(config, world_bounds)
AgentWith(a, world_bounds) ==
    [ state           |-> "idle",
      state_timer     |-> 0,
      position        |-> SpawnPosition[a],
      target_position |-> SpawnPosition[a],
      world_bounds    |-> world_bounds,
      selected        |-> FALSE,
      bob_offset      |-> 0,
      bob_base_y      |-> SpawnPosition[a].y,
      error_base_pos  |-> SpawnPosition[a],
      pace_direction  |-> 1,
      speech_bubble   |-> NoBubble ]

\* Agent(agent_config, engine.world), the call of main.py
NewAgent(a) == AgentWith(a, WorldObject)

\* Agent._pick_random_target on a bounds dict, with the two
\* random.randint(-64, 64) draws ox, oy (pixels)
PickRandomTarget(ag, ox, oy) ==
    [ag EXCEPT !.target_position =
        [ x |-> Max(ag.world_bounds.min_x + TargetMargin * Milli,
                    Min(ag.world_bounds.max_x - TargetMargin * Milli,
                        ag.position.x + ox * Milli)),
          y |-> Max(ag.world_bounds.min_y + TargetMargin * Milli,
                    Min(ag.world_bounds.max_y - TargetMargin * Milli,
                        ag.position.y + oy * Milli)) ]]

\* set_state(new_state) raises: _pick_random_target subscripts world_bounds
SetStateRaises(ag, new_state) ==
    new_state = "idle" /\ ~Subscriptable(ag.world_bounds)

\* a set_state that puts the agent back on the base of the animation it
\* leaves
SetStateRestoringPosition(ag, new_state, ox, oy) ==
    LET a0 == IF ag.state = "error"
              THEN [ag EXCEPT !.position = ag.error_base_pos]
              ELSE IF ag.state = "talking"
              THEN [ag EXCEPT !.position.y = ag.bob_base_y]
              ELSE ag
        a1 == [a0 EXCEPT !.state = new_state, !.state_timer = 0]
    IN  CASE new_state = "thinking" ->
               [a1 EXCEPT !.pace_direction = 1,
                          !.target_position = [x |-> a0.position.x + PaceDistance * Milli,
                                               y |-> a0.position.y]]
          [] new_state = "talking" ->
               [a1 EXCEPT !.bob_base_y = a0.position.y, !.bob_offset = 0]
          [] new_state = "error" ->
               [a1 EXCEPT !.error_base_pos = a0.position]
          [] new_state = "idle" ->
               IF Subscriptable(ag.world_bounds) THEN PickRandomTarget(a1, ox, oy) ELSE a1

\* a set_state that restarts the timer only when the state changes
SetStateKeepingTimer(ag, new_state, ox, oy) ==
    LET a1 == [ag EXCEPT !.state = new_state,
                         !.state_timer = IF new_state = ag.state THEN @ ELSE 0]
    IN  CASE new_state = "thinking" ->
               [a1 EXCEPT !.pace_direction = 1,
                          !.target_position = [x |-> ag.position.x + PaceDistance * Milli,
                                               y |-> ag.position.y]]
          [] new_state = "talking" ->
               [a1 EXCEPT !.bob_base_y = ag.position.y, !.bob_offset = 0]
          [] new_state = "error" ->
               [a1 EXCEPT !.error_base_pos = ag.position]
          [] new_state = "idle" ->
               IF Subscriptable(ag.world_bounds) THEN PickRandomTarget(a1, ox, oy) ELSE a1

\* Agent.set_state(new_state); ox, oy are the random draws of the IDLE branch.
\* When the IDLE branch raises, state and state_timer have been assigned.
SetState(ag, new_state, ox, oy) ==
    LET a1 == [ag EXCEPT !.state = new_state, !.state_timer = 0]
    IN  CASE new_state = "thinking" ->
               [a1 EXCEPT !.pace_direction = 1,
                          !.target_position = [x |-> ag.position.x + PaceDistance * Milli,
                                               y |-> ag.position.y]]
          [] new_state = "talking" ->
               [a1 EXCEPT !.bob_base_y = ag.position.y, !.bob_offset = 0]
          [] new_state = "error" ->
               [a1 EXCEPT !.error_base_pos = ag.position]
          [] new_state = "idle" ->
               IF Subscriptable(ag.world_bounds) THEN PickRandomTarget(a1, ox, oy) ELSE a1

Abs(n) == IF n < 0 THEN -n ELSE n
Sign(n) == IF n < 0 THEN -1 ELSE IF n > 0 THEN 1 ELSE 0

\* the integer square root, for distances in tenths of a pixel
ISqrt(n) == CHOOSE r \in 0 .. 30000 : r * r <= n /\ n < (r + 1) * (r + 1)

\* Vector2.distance_to: exact along one axis, to a tenth of a pixel otherwise
Distance(p, q) ==
    LET dx == q.x - p.x
        dy == q.y - p.y
    IN  IF dx = 0 THEN Abs(dy)
        ELSE IF dy = 0 THEN Abs(dx)
        ELSE 100 * ISqrt((dx \div 100) * (dx \div 100) + (dy \div 100) * (dy \div 100))

\* position += (target - position).normalize() * move_distance
StepToward(p, q, move_distance) ==
    LET dx == q.x - p.x
        dy == q.y - p.y
        distance == Distance(p, q)
    IN  IF dx = 0 \/ dy = 0
        THEN [x |-> p.x + Sign(dx) * move_distance, y |-> p.y + Sign(dy) * move_distance]
        ELSE [x |-> p.x + ((dx \div 100) * move_distance) \div (distance \div 100),
              y |-> p.y + ((dy \div 100) * move_distance) \div (distance \div 100)]

\* speed * dt, for a speed in pixels per second and dt in quarter seconds
MoveDistance(speed, dt) == (speed * Milli * dt) \div TicksPerSecond

\* the branch of _update_idle that picks a new target is taken: the agent
\* is within one pixel of its target and state_timer > random.uniform(3.0,
\* 5.0), the draw being `wait` quarter seconds
IdlePicks(ag, wait) ==
    /\ Distance(ag.position, ag.target_position) <= Milli
    /\ ag.state_timer > wait

\* Agent._update_idle, after state_timer += dt
UpdateIdle(ag, dt, wait, ox, oy) ==
    LET distance == Distance(ag.position, ag.target_position)
        move_distance == MoveDistance(MoveSpeed, dt)
    IN  IF distance > Milli
        THEN IF move_distance > distance
             THEN [ag EXCEPT !.position = ag.target_position]
             ELSE [ag EXCEPT !.position =
                        StepToward(ag.position, ag.target_position, move_distance)]
        ELSE IF ag.state_timer > wait /\ Subscriptable(ag.world_bounds)
        THEN [PickRandomTarget(ag, ox, oy) EXCEPT !.state_timer = 0]
        ELSE ag

\* a pace that goes on in the same direction at each end
UpdateThinkingOneWay(ag, dt) ==
    LET distance == Distance(ag.position, ag.target_position)
        move_distance == MoveDistance(MoveSpeed * PaceFactor, dt)
    IN  IF distance > Milli
        THEN IF move_distance > distance
             THEN [ag EXCEPT !.position = ag.target_position]
             ELSE [ag EXCEPT !.position =
                        StepToward(ag.position, ag.target_position, move_distance)]
        ELSE [ag EXCEPT !.target_position.x =
                            ag.position.x + PaceDistance * Milli * ag.pace_direction]

\* Agent._update_thinking
UpdateThinking(ag, dt) ==
    LET distance == Distance(ag.position, ag.target_position)
        move_distance == MoveDistance(MoveSpeed * PaceFactor, dt)
    IN  IF distance > Milli
        THEN IF move_distance > distance
             THEN [ag EXCEPT !.position = ag.target_position]
             ELSE [ag EXCEPT !.position =
                        StepToward(ag.position, ag.target_position, move_distance)]
        ELSE [ag EXCEPT !.pace_direction = -ag.pace_direction,
                        !.target_position.x =
                            ag.position.x + PaceDistance * Milli * (-ag.pace_direction)]

\* a bob that adds each offset to the position it finds
UpdateTalkingAccumulating(ag, dt) ==
    LET bob_offset == ag.bob_offset + (BobSpeed * dt) \div TicksPerSecond
    IN  [ag EXCEPT !.bob_offset = bob_offset,
                   !.position.y = ag.position.y + Sin(bob_offset) * BobAmplitude]

\* Agent._update_talking: bob_offset is kept in radians, and bob_speed * dt
\* is a whole number of them
UpdateTalking(ag, dt) ==
    LET bob_offset == ag.bob_offset + (BobSpeed * dt) \div TicksPerSecond
    IN  [ag EXCEPT !.bob_offset = bob_offset,
                   !.position.y = ag.bob_base_y + Sin(bob_offset) * BobAmplitude]

\* Agent._update_error; ox, oy are the draws of set_state(IDLE)
UpdateError(ag, ox, oy) ==
    IF ag.state_timer < ErrorSeconds * TicksPerSecond
    THEN [ag EXCEPT !.position =
             [x |-> ag.error_base_pos.x
                      + ShakeAmplitude
                          * Sin((ag.state_timer * ShakeSpeed) \div TicksPerSecond),
              y |-> ag.error_base_pos.y]]
    ELSE SetState(ag, "idle", ox, oy)

\* Agent.update(dt) raises TypeError: the state's rule reaches
\* _pick_random_target and world_bounds is not subscriptable
UpdateRaises(ag, dt, wait) ==
    LET timed == [ag EXCEPT !.state_timer = ag.state_timer + dt]
    IN  /\ ~Subscriptable(ag.world_bounds)
        /\ \/ timed.state = "idle" /\ IdlePicks(timed, wait)
           \/ /\ timed.state = "error"
              /\ timed.state_timer >= ErrorSeconds * TicksPerSecond

\* Agent.update(dt): the agent afterwards (when it raises: at the raise)
Update(ag, dt, wait, ox, oy) ==
    LET timed == [ag EXCEPT !.state_timer = ag.state_timer + dt]
    IN  CASE timed.state = "idle" -> UpdateIdle(timed, dt, wait, ox, oy)
          [] timed.state = "thinking" -> UpdateThinking(timed, dt)
          [] timed.state = "talking" -> UpdateTalking(timed, dt)
          [] timed.state = "error" -> UpdateError(timed, ox, oy)

\* SpeechBubble(text, max_width, is_error)
SpeechBubble(text, is_error) == [text |-> text, is_error |-> is_error]

----------------------------------------------------------------------------
(* Initial state: main.py after LLMClient(providers), before start() *)

\* no method of an Agent has been called from outside the engine
NothingObserved == [calls |-> 0, draws |-> 0]

NoRequest == [agent_id |-> None, provider |-> None, model |-> None,
              message |-> None, history |-> Private(<< >>), rid |-> 0]

\* nothing has been asked of the provider for a request, or it keeps no record
NoCalls == [is_available |-> None, send_message |-> FALSE, yielded |-> << >>,
            returned |-> FALSE, truncated |-> FALSE]

\* None as the value get_response returns
NoResponse == [agent_id |-> None, status |-> None, text |-> None, error |-> None,
               rid |-> 0]

\* a Thread object that start() has not created yet
UnbornThread == [pc |-> "unborn", request |-> NoRequest, messages |-> Private(<< >>),
                 response_chunks |-> << >>, chunk_count |-> 0, total_length |-> 0,
                 dequeued_running |-> TRUE]

InitWith(provider_dict) ==
    /\ providers = provider_dict
    /\ heap = [i \in 1..Cardinality(AgentIds) |-> << >>]
    /\ live = LiveObject
    /\ provider_calls = [r \in RequestIds |-> NoCalls]
    /\ running = FALSE
    /\ worker_thread = NoThread
    /\ request_queue = << >>
    /\ response_queue = << >>
    /\ threads = [t \in ThreadIds |-> UnbornThread]
    /\ mainpc = "run"
    /\ last_response = NoResponse
    /\ agents = [a \in AgentIds |->
                   [NewAgent(a) EXCEPT !.selected = (a = FirstAgent)]]
    /\ selected_agent = FirstAgent
    /\ submitted = << >>
    /\ polled = << >>
    /\ failed = {}
    /\ observed = NothingObserved

Init == InitWith(BasicProviders)

----------------------------------------------------------------------------
(* LLMClient: the methods the main thread calls *)

Alive(t) == threads[t].pc \notin {"unborn", "exited"}

\* LLMClient.start
Start ==
    /\ mainpc = "run"
    /\ IF worker_thread # NoThread
       THEN \* "Worker thread already running": nothing is launched
            UNCHANGED << observed, providers, heap, live, provider_calls, running, worker_thread, threads >>
       ELSE \E t \in ThreadIds :
              /\ threads[t].pc = "unborn"
              /\ \A u \in ThreadIds : u < t => threads[u].pc # "unborn"
              /\ running' = TRUE
              /\ threads' = [threads EXCEPT ![t].pc = "check"]
              /\ worker_thread' = t
    /\ UNCHANGED << observed, providers, heap, live, provider_calls, request_queue, response_queue, mainpc, last_response,
                    agents, selected_agent, submitted, polled, failed >>

\* a stop() that also empties the request queue
StopSignalDrains ==
    /\ mainpc = "run"
    /\ running' = FALSE
    /\ request_queue' = << >>
    /\ mainpc' = IF worker_thread # NoThread THEN "joining" ELSE "run"
    /\ UNCHANGED << observed, providers, heap, live, provider_calls, worker_thread, response_queue, threads,
                    last_response, agents, selected_agent, submitted, polled, failed >>

\* LLMClient.stop up to the join: running = False, then join() is entered if
\* there is a worker_thread
StopSignal ==
    /\ mainpc = "run"
    /\ running' = FALSE
    /\ mainpc' = IF worker_thread # NoThread THEN "joining" ELSE "run"
    /\ UNCHANGED << observed, providers, heap, live, provider_calls, worker_thread, request_queue, response_queue, threads,
                    last_response, agents, selected_agent, submitted, polled, failed >>

\* a provider call (is_available, or the send_message stream) is executing
\* in thread t
InProviderCall(t) == threads[t].pc \in {"avail", "stream"}

\* seconds: worker_thread.join(timeout=5.0), request_queue.get(timeout=1.0)
JoinTimeout == 5
GetTimeout == 1

\* a join without a timeout: returns only when the thread has ended
JoinWithoutTimeout(t, timed_out) == threads[t].pc = "exited"

\* worker_thread.join(timeout=5.0) returns: the thread has ended, or the
\* timeout has elapsed.  A worker outside a provider call is back at
\* `while self.running` within the get timeout, which is shorter than the
\* join timeout, so the join can time out only on a worker inside a call.
JoinReturns(t, timed_out) ==
    \/ threads[t].pc = "exited"
    \/ timed_out /\ (InProviderCall(t) \/ JoinTimeout <= GetTimeout)

\* LLMClient.stop from the return of join: worker_thread = None
StopJoin ==
    /\ mainpc = "joining"
    /\ \E timed_out \in BOOLEAN : JoinReturns(worker_thread, timed_out)
    /\ worker_thread' = NoThread
    /\ mainpc' = "run"
    /\ UNCHANGED << observed, providers, heap, live, provider_calls, running, request_queue, response_queue, threads,
                    last_response, agents, selected_agent, submitted, polled, failed >>

\* a send_message that queues the caller's list itself
SharedHistory(history) == history

\* history.copy() in send_message
SnapshotHistory(history) == CopyList(history)

\* the dict send_message puts on the request queue; history.copy() is the
\* value of the list at the call.  rid is the number of the call in
\* submission order: it is no key of the dict, it names the request in the
\* properties below
NewRequest(agent_id, provider_name, model, message, history, rid) ==
    [ agent_id |-> agent_id, provider |-> provider_name, model |-> model,
      message |-> message, history |-> SnapshotHistory(history), rid |-> rid ]

\* a put at the head of the queue
EnqueueFront(q, request) == << request >> \o q

\* request_queue.put(request)
Enqueue(q, request) == Append(q, request)

\* LLMClient.send_message
SendMessage(agent_id, provider_name, model, message, history) ==
    /\ mainpc = "run"
    /\ Len(submitted) < MaxRequests
    /\ LET request == NewRequest(agent_id, provider_name, model, message, history,
                                 Len(submitted) + 1)
       IN  /\ submitted' = Append(submitted, request)
           /\ request_queue' = Enqueue(request_queue, request)
    /\ UNCHANGED << observed, providers, heap, live, provider_calls, running, worker_thread, response_queue, threads, mainpc,
                    last_response, agents, selected_agent, polled, failed >>

\* a caller of send_message: any agent's id, provider and model, any message
Submit ==
    \E a \in AgentIds, m \in Messages :
        SendMessage(a, AgentProvider[a], AgentModel[a], m, Pointer(live[a]))

\* response_queue.get_nowait(), or None on Empty
PollValue(q) == IF q = << >> THEN NoResponse ELSE Head(q)
PollRest(q) == IF q = << >> THEN q ELSE Tail(q)

\* a get_response that waits for a response: response_queue.get()
GetResponseBlocking ==
    /\ mainpc = "run"
    /\ response_queue # << >>
    /\ last_response' = Head(response_queue)
    /\ response_queue' = Tail(response_queue)
    /\ polled' = Append(polled, Head(response_queue).rid)
    /\ UNCHANGED << observed, providers, heap, live, provider_calls, running, worker_thread, request_queue, threads, mainpc,
                    agents, selected_agent, submitted, failed >>

\* LLMClient.get_response
GetResponse ==
    /\ mainpc = "run"
    /\ last_response' = PollValue(response_queue)
    /\ response_queue' = PollRest(response_queue)
    /\ polled' = IF response_queue = << >> THEN polled
                 ELSE Append(polled, Head(response_queue).rid)
    /\ UNCHANGED << observed, providers, heap, live, provider_calls, running, worker_thread, request_queue, threads, mainpc,
                    agents, selected_agent, submitted, failed >>

----------------------------------------------------------------------------
(* A caller that keeps a conversation in the list it passes as history, the
   way _send_message_to_agent and _process_llm_responses treat
   conversation_history *)

AssistantTurn(content) == [role |-> "assistant", content |-> content]
SystemTurn(content) == [role |-> "system", content |-> content]

\* next((m for m in history if m['role'] == 'system'), None), as the list
\* `[system_msg] if system_msg else []`
FirstSystem(history) ==
    LET idx == { i \in DOMAIN history : history[i].role = "system" }
    IN  IF idx = {} THEN << >>
        ELSE << history[CHOOSE i \in idx : \A j \in idx : i <= j] >>

\* history[-n:] (history[-0:] is the whole list)
LastItems(history, n) ==
    IF n = 0 THEN history
    ELSE SubSeq(history, Max(1, Len(history) - n + 1), Len(history))

\* the list conversation_history is bound to after the trim
TrimHistory(history, max_history) ==
    IF Len(history) > max_history * 2
    THEN FirstSystem(history) \o LastItems(history, max_history * 2)
    ELSE history

\* the next turn of a conversation: user and assistant alternate
NextTurn(history) ==
    IF Len(history) % 2 = 0 THEN [role |-> "user", content |-> "hi"]
    ELSE AssistantTurn("Hel")

\* the longest list a caller lets its history grow to before it trims
MaxLiveTurns == 2 * CallerMaxHistory + 1

\* history.append(turn): the caller's list object changes in place
CallerAppend(a) ==
    /\ mainpc = "run"
    /\ Len(heap[live[a]]) < MaxLiveTurns
    /\ heap' = [heap EXCEPT ![live[a]] = Append(@, NextTurn(@))]
    /\ UNCHANGED << observed, providers, live, provider_calls, running, worker_thread, request_queue,
                    response_queue, threads, mainpc, last_response, agents, selected_agent,
                    submitted, polled, failed >>

\* history = [system] + recent: the caller binds its history to a new list
CallerTrim(a) ==
    /\ mainpc = "run"
    /\ Len(heap[live[a]]) > CallerMaxHistory * 2
    /\ Len(heap) < Cardinality(AgentIds) + MaxRebinds
    /\ heap' = Append(heap, TrimHistory(heap[live[a]], CallerMaxHistory))
    /\ live' = [live EXCEPT ![a] = Len(heap) + 1]
    /\ UNCHANGED << observed, providers, provider_calls, running, worker_thread, request_queue,
                    response_queue, threads, mainpc, last_response, agents, selected_agent,
                    submitted, polled, failed >>

----------------------------------------------------------------------------
(* LLMClient._worker_loop and _call_llm, per thread t *)

\* the dicts the worker puts on the response queue
SuccessResponse(request, text) ==
    [ agent_id |-> request.agent_id, status |-> "success", text |-> text,
      error |-> None, rid |-> request.rid ]
ErrorResponse(request, error) ==
    [ agent_id |-> request.agent_id, status |-> "error", text |-> None,
      error |-> error, rid |-> request.rid ]

\* back at the top of the while loop; the locals of the iteration are dead
LoopTop(th) == [th EXCEPT !.pc = "check", !.request = NoRequest,
                          !.messages = Private(<< >>), !.response_chunks = << >>,
                          !.chunk_count = 0, !.total_length = 0,
                          !.dequeued_running = TRUE]

\* a worker that answers a failed stream with the text it had accumulated
RaiseKeepsPartial(t, error) ==
    /\ response_queue' = Append(response_queue,
           IF threads[t].response_chunks # << >>
           THEN SuccessResponse(threads[t].request, Join(threads[t].response_chunks))
           ELSE ErrorResponse(threads[t].request, error))
    /\ failed' = failed \cup { [ rid |-> threads[t].request.rid,
                                 partial |-> Len(threads[t].response_chunks) ] }
    /\ threads' = [threads EXCEPT ![t] = LoopTop(threads[t])]

\* a worker loop without the except branch: the exception ends the thread
RaiseEndsWorker(t, error) ==
    /\ response_queue' = response_queue
    /\ failed' = failed \cup { [ rid |-> threads[t].request.rid,
                                 partial |-> Len(threads[t].response_chunks) ] }
    /\ threads' = [threads EXCEPT ![t] = [LoopTop(threads[t]) EXCEPT !.pc = "exited"]]

\* _call_llm raised e: the except branch of _worker_loop puts one error
\* response and the loop continues
RaiseInWorker(t, error) ==
    /\ response_queue' = Append(response_queue,
                                ErrorResponse(threads[t].request, error))
    /\ failed' = failed \cup { [ rid |-> threads[t].request.rid,
                                 partial |-> Len(threads[t].response_chunks) ] }
    /\ threads' = [threads EXCEPT ![t] = LoopTop(threads[t])]

\* _call_llm returned text: the try branch puts one success response
ReturnInWorker(t, text) ==
    /\ response_queue' = Append(response_queue,
                                SuccessResponse(threads[t].request, text))
    /\ failed' = failed
    /\ threads' = [threads EXCEPT ![t] = LoopTop(threads[t])]

\* a daemon thread runs only while the process does
ProcessRuns == mainpc # "exited"

\* `while self.running:`
WorkerCheck(t) ==
    /\ ProcessRuns
    /\ threads[t].pc = "check"
    /\ threads' = [threads EXCEPT ![t].pc = IF running THEN "get" ELSE "exited"]
    /\ UNCHANGED << observed, providers, heap, live, provider_calls, running, worker_thread, request_queue, response_queue, mainpc,
                    last_response, agents, selected_agent, submitted, polled, failed >>

\* the request the worker takes from the queue, and what it leaves
TakeRequest(q) == Head(q)
LeaveRequests(q) == Tail(q)

\* a get() without a timeout: the worker waits until a request is there
WorkerGetBlocking(t) ==
    /\ ProcessRuns
    /\ threads[t].pc = "get"
    /\ request_queue # << >>
    /\ threads' = [threads EXCEPT ![t].pc = "call",
                                   ![t].request = TakeRequest(request_queue),
                                   ![t].dequeued_running = running]
    /\ request_queue' = LeaveRequests(request_queue)
    /\ UNCHANGED << observed, providers, heap, live, provider_calls, running, worker_thread, response_queue, mainpc,
                    last_response, agents, selected_agent, submitted, polled, failed >>

\* `request = self.request_queue.get(timeout=1.0)`, or Empty and `continue`
WorkerGet(t) ==
    /\ ProcessRuns
    /\ threads[t].pc = "get"
    /\ IF request_queue = << >>
       THEN /\ threads' = [threads EXCEPT ![t].pc = "check"]
            /\ UNCHANGED request_queue
       ELSE /\ threads' = [threads EXCEPT ![t].pc = "call",
                                          ![t].request = TakeRequest(request_queue),
                                          ![t].dequeued_running = running]
            /\ request_queue' = LeaveRequests(request_queue)
    /\ UNCHANGED << observed, providers, heap, live, provider_calls, running, worker_thread, response_queue, mainpc,
                    last_response, agents, selected_agent, submitted, polled, failed >>

\* _call_llm: the provider lookup; is_available() is called on a known provider
WorkerLookup(t) ==
    /\ ProcessRuns
    /\ threads[t].pc = "call"
    /\ IF threads[t].request.provider \notin DOMAIN providers
       THEN RaiseInWorker(t, "Unknown provider: " \o threads[t].request.provider)
       ELSE /\ threads' = [threads EXCEPT ![t].pc = "avail"]
            /\ UNCHANGED << observed, response_queue, failed >>
    /\ UNCHANGED << observed, providers, heap, live, provider_calls, running, worker_thread, request_queue, mainpc,
                    last_response, agents, selected_agent, submitted, polled >>

\* the user turn _call_llm appends
UserTurn(content) == [role |-> "user", content |-> content]

\* messages = request['history'].copy(); messages.append(user turn): the
\* list the worker sends, and the heap after the append
BuildMessages(request) ==
    RefAfterAppend(CopyList(request.history), UserTurn(request.message))
HeapAfterBuild(request) ==
    HeapAfterAppend(CopyList(request.history), UserTurn(request.message))

\* a worker that calls send_message whatever is_available() returned
AvailableIgnored(t) ==
    /\ ProcessRuns
    /\ threads[t].pc = "avail"
    /\ \E available \in BOOLEAN :
         provider_calls' =
            IF providers[threads[t].request.provider].records_calls
            THEN [provider_calls EXCEPT
                    ![threads[t].request.rid].is_available =
                        IF available THEN "True" ELSE "False",
                    ![threads[t].request.rid].send_message = TRUE]
            ELSE provider_calls
    /\ threads' = [threads EXCEPT
                     ![t].pc = "stream",
                     ![t].messages = BuildMessages(threads[t].request),
                     ![t].response_chunks = << >>]
    /\ heap' = HeapAfterBuild(threads[t].request)
    /\ UNCHANGED << observed, providers, live, running, worker_thread, request_queue, response_queue,
                    mainpc, last_response, agents, selected_agent, submitted, polled, failed >>

\* provider.is_available() returns; on True the message list is built and
\* provider.send_message(messages, model) is called
WorkerAvailable(t) ==
    /\ ProcessRuns
    /\ threads[t].pc = "avail"
    /\ \E available \in BOOLEAN :
         /\ provider_calls' =
                IF providers[threads[t].request.provider].records_calls
                THEN [provider_calls EXCEPT
                        ![threads[t].request.rid].is_available =
                            IF available THEN "True" ELSE "False",
                        ![threads[t].request.rid].send_message = available]
                ELSE provider_calls
         /\ IF ~available
            THEN /\ RaiseInWorker(t,
                       providers[threads[t].request.provider].name \o " is not available")
                 /\ UNCHANGED heap
            ELSE /\ threads' = [threads EXCEPT
                                  ![t].pc = "stream",
                                  ![t].messages = BuildMessages(threads[t].request),
                                  ![t].response_chunks = << >>]
                 /\ heap' = HeapAfterBuild(threads[t].request)
                 /\ UNCHANGED << observed, response_queue, failed >>
    /\ UNCHANGED << observed, providers, live, running, worker_thread, request_queue, mainpc,
                    last_response, agents, selected_agent, submitted, polled >>

\* a worker that puts each new chunk in front of the ones it has
ChunkPrepended(t) ==
    /\ ProcessRuns
    /\ threads[t].pc = "stream"
    /\ Len(threads[t].response_chunks)
         < providers[threads[t].request.provider].max_chunks
    /\ \E chunk \in providers[threads[t].request.provider].chunks :
         /\ threads' = [threads EXCEPT
                          ![t].response_chunks = << chunk >> \o threads[t].response_chunks]
         /\ provider_calls' =
                IF providers[threads[t].request.provider].records_calls
                THEN [provider_calls EXCEPT
                        ![threads[t].request.rid].yielded = Append(@, chunk)]
                ELSE provider_calls
    /\ UNCHANGED << observed, providers, heap, live, running, worker_thread, request_queue,
                    response_queue, mainpc, last_response, agents, selected_agent,
                    submitted, polled, failed >>

\* the stream yields a chunk: response_chunks.append(chunk)
WorkerChunk(t) ==
    /\ ProcessRuns
    /\ threads[t].pc = "stream"
    /\ Len(threads[t].response_chunks)
         < providers[threads[t].request.provider].max_chunks
    /\ \E chunk \in providers[threads[t].request.provider].chunks :
         /\ threads' = [threads EXCEPT
                          ![t].response_chunks = Append(threads[t].response_chunks, chunk)]
         /\ provider_calls' =
                IF providers[threads[t].request.provider].records_calls
                THEN [provider_calls EXCEPT
                        ![threads[t].request.rid].yielded = Append(@, chunk)]
                ELSE provider_calls
    /\ UNCHANGED << observed, providers, heap, live, running, worker_thread, request_queue, response_queue, mainpc,
                    last_response, agents, selected_agent, submitted, polled, failed >>

\* the stream raises: logged and re-raised by _call_llm
WorkerStreamRaises(t) ==
    /\ ProcessRuns
    /\ threads[t].pc = "stream"
    /\ \E error \in providers[threads[t].request.provider].errors :
         RaiseInWorker(t, error)
    /\ UNCHANGED << observed, providers, heap, live, provider_calls, running, worker_thread, request_queue, mainpc,
                    last_response, agents, selected_agent, submitted, polled >>

\* a worker that applies its result to the agent itself
StreamEndsOnAgent(t) ==
    /\ ProcessRuns
    /\ threads[t].pc = "stream"
    /\ threads[t].request.agent_id \in AgentIds
    /\ agents' = [agents EXCEPT ![threads[t].request.agent_id].state = "talking"]
    /\ ReturnInWorker(t, Join(threads[t].response_chunks))
    /\ UNCHANGED << observed, providers, heap, live, provider_calls, running, worker_thread, request_queue, mainpc,
                    last_response, selected_agent, submitted, polled >>

\* the fake adapter's record of a stream that ended without raising
CallsAfterReturn(t) ==
    IF providers[threads[t].request.provider].records_calls
    THEN [provider_calls EXCEPT ![threads[t].request.rid].returned = TRUE]
    ELSE provider_calls

\* a worker that answers with whatever text it has, empty or not
StreamEndsAlways(t) ==
    /\ ProcessRuns
    /\ threads[t].pc = "stream"
    /\ ReturnInWorker(t, Join(threads[t].response_chunks))
    /\ provider_calls' = CallsAfterReturn(t)
    /\ UNCHANGED << observed, providers, heap, live, running, worker_thread, request_queue, mainpc,
                    last_response, agents, selected_agent, submitted, polled >>

\* the stream ends: the chunks are joined; an empty text raises ValueError
WorkerStreamEnds(t) ==
    /\ ProcessRuns
    /\ threads[t].pc = "stream"
    /\ LET full_response == Join(threads[t].response_chunks)
       IN  IF full_response = ""
           THEN RaiseInWorker(t, "Empty response from provider")
           ELSE ReturnInWorker(t, full_response)
    /\ provider_calls' = CallsAfterReturn(t)
    /\ UNCHANGED << observed, providers, heap, live, running, worker_thread, request_queue, mainpc,
                    last_response, agents, selected_agent, submitted, polled >>

\* the longest response body followed: one line more than the chunk limit
MaxLines == OllamaChunkLimit + 1

\* the generator of OllamaProvider.send_message ends (break, or the body is
\* exhausted) after the worker has appended `chunks`; _call_llm joins them
GeneratorEnds(t, chunks, was_truncated) ==
    /\ IF Join(chunks) = ""
       THEN RaiseInWorker(t, "Empty response from provider")
       ELSE ReturnInWorker(t, Join(chunks))
    /\ provider_calls' = [provider_calls EXCEPT
                            ![threads[t].request.rid].returned = TRUE,
                            ![threads[t].request.rid].truncated = was_truncated,
                            ![threads[t].request.rid].yielded = chunks]

\* the generator goes on to the next line
GeneratorContinues(t, chunks, count, total) ==
    /\ threads' = [threads EXCEPT ![t].response_chunks = chunks,
                                  ![t].chunk_count = count,
                                  ![t].total_length = total]
    /\ provider_calls' = [provider_calls EXCEPT
                            ![threads[t].request.rid].yielded = chunks]
    /\ UNCHANGED << observed, response_queue, failed >>

\* OllamaProvider.send_message: one iteration of `for line in
\* response.iter_lines()` on a non-empty line, with the worker's
\* response_chunks.append(chunk) when it yields
OllamaLine(t) ==
    /\ ProcessRuns
    /\ threads[t].pc = "stream"
    /\ threads[t].chunk_count < MaxLines
    /\ LET provider == providers[threads[t].request.provider]
           chunks == threads[t].response_chunks
           count == threads[t].chunk_count + 1
       IN  \E line \in provider.lines :
             IF count > provider.chunk_limit
             THEN GeneratorEnds(t, chunks, TRUE)
             ELSE IF line.kind = "junk"
             THEN GeneratorContinues(t, chunks, count, threads[t].total_length)
             ELSE IF line.content # ""
             THEN LET total == threads[t].total_length + Len(line.content)
                  IN  IF total > provider.length_limit
                      THEN GeneratorEnds(t, chunks, TRUE)
                      ELSE IF line.done
                      THEN GeneratorEnds(t, Append(chunks, line.content), FALSE)
                      ELSE GeneratorContinues(t, Append(chunks, line.content), count, total)
             ELSE IF line.done
             THEN GeneratorEnds(t, chunks, FALSE)
             ELSE GeneratorContinues(t, chunks, count, threads[t].total_length)
    /\ UNCHANGED << observed, providers, heap, live, running, worker_thread, request_queue, mainpc,
                    last_response, agents, selected_agent, submitted, polled >>

\* the worker over an OllamaProvider followed line by line
OllamaWorkerStep(t) ==
    \/ WorkerCheck(t)
    \/ WorkerGet(t)
    \/ WorkerLookup(t)
    \/ WorkerAvailable(t)
    \/ OllamaLine(t)
    \/ WorkerStreamRaises(t)
    \/ WorkerStreamEnds(t)

OllamaWorker == \E t \in ThreadIds : OllamaWorkerStep(t)

WorkerStep(t) ==
    \/ WorkerCheck(t)
    \/ WorkerGet(t)
    \/ WorkerLookup(t)
    \/ WorkerAvailable(t)
    \/ WorkerChunk(t)
    \/ WorkerStreamRaises(t)
    \/ WorkerStreamEnds(t)

Worker == \E t \in ThreadIds : WorkerStep(t)

----------------------------------------------------------------------------
(* GameEngine handlers that use the client (engine.py) *)

\* GameEngine._format_error
FormatError(error) ==
    LET error_lower == Lower(error)
    IN  IF Contains(error_lower, "connectionerror") \/ Contains(error_lower, "cannot reach")
        THEN "Can't reach LLM service"
        ELSE IF Contains(error_lower, "timeouterror") \/ Contains(error_lower, "timed out")
        THEN "Request timed out"
        ELSE IF Contains(error, "404") \/ Contains(error_lower, "not found")
        THEN "Model not found"
        ELSE IF Contains(error_lower, "api key") \/ Contains(error, "401")
                \/ Contains(error, "403")
        THEN "Invalid API key"
        ELSE "Error: " \o Prefix(error, 50)

\* an engine that gives a response for an unknown id to its first agent
AnyAgentById(agent_id) == IF agent_id \in AgentIds THEN agent_id ELSE FirstAgent

\* GameEngine._get_agent_by_id
GetAgentById(agent_id) == IF agent_id \in AgentIds THEN agent_id ELSE None

\* the agent after a success response up to the point where
\* agent.conversation_history is read: Agent defines no such attribute, so
\* the append raises AttributeError after the bubble and the state are set
AppliedSuccess(ag, response) ==
    SetState([ag EXCEPT !.speech_bubble = SpeechBubble(response.text, FALSE)],
             "talking", 0, 0)

\* an engine that shows the error bubble and leaves the agent's state alone
AppliedErrorSilently(ag, response) ==
    [ag EXCEPT !.speech_bubble = SpeechBubble(FormatError(response.error), TRUE)]

\* the agent after an error response
AppliedError(ag, response) ==
    SetState([ag EXCEPT !.speech_bubble =
                 SpeechBubble(FormatError(response.error), TRUE)],
             "error", 0, 0)

\* GameEngine._process_llm_responses: one iteration of its `while True` loop
ProcessResponses ==
    /\ mainpc \in {"run", "drain"}
    /\ last_response' = PollValue(response_queue)
    /\ response_queue' = PollRest(response_queue)
    /\ polled' = IF response_queue = << >> THEN polled
                 ELSE Append(polled, Head(response_queue).rid)
    /\ LET response == PollValue(response_queue)
       IN  IF response = NoResponse
           THEN /\ mainpc' = "run"
                /\ UNCHANGED agents
           ELSE LET a == GetAgentById(response.agent_id)
                IN  IF a = None
                    THEN /\ mainpc' = "drain"
                         /\ UNCHANGED agents
                    ELSE IF response.status = "success"
                    THEN /\ agents' = [agents EXCEPT ![a] = AppliedSuccess(agents[a], response)]
                         /\ mainpc' = "raised"
                    ELSE /\ agents' = [agents EXCEPT ![a] = AppliedError(agents[a], response)]
                         /\ mainpc' = "drain"
    /\ UNCHANGED << observed, providers, heap, live, provider_calls, running, worker_thread, request_queue, threads,
                    selected_agent, submitted, failed >>

\* GameEngine._handle_agent_click when the click hits agent a
HandleAgentClick(a) ==
    /\ mainpc = "run"
    /\ agents' = [b \in AgentIds |-> [agents[b] EXCEPT !.selected = (b = a)]]
    /\ selected_agent' = a
    /\ UNCHANGED << observed, providers, heap, live, provider_calls, running, worker_thread, request_queue, response_queue, threads,
                    mainpc, last_response, submitted, polled, failed >>

\* GameEngine._send_message_to_agent: the selected agent's
\* conversation_history is read first, an attribute Agent does not define,
\* so AttributeError leaves the handler before set_state and send_message
SendMessageToAgent(message) ==
    /\ mainpc = "run"
    /\ selected_agent # None
    /\ mainpc' = "raised"
    /\ UNCHANGED << observed, providers, heap, live, provider_calls, running, worker_thread, request_queue, response_queue, threads,
                    last_response, agents, selected_agent, submitted, polled, failed >>

\* GameEngine.cleanup (main.py runs it in `finally`): stop() as above, and
\* the process ends when it returns
Cleanup ==
    /\ mainpc \in {"run", "raised"}
    /\ running' = FALSE
    /\ mainpc' = IF worker_thread # NoThread THEN "cleanup_joining" ELSE "exited"
    /\ UNCHANGED << observed, providers, heap, live, provider_calls, worker_thread, request_queue, response_queue, threads,
                    last_response, agents, selected_agent, submitted, polled, failed >>

CleanupJoin ==
    /\ mainpc = "cleanup_joining"
    /\ \E timed_out \in BOOLEAN : JoinReturns(worker_thread, timed_out)
    /\ worker_thread' = NoThread
    /\ mainpc' = "exited"
    /\ UNCHANGED << observed, providers, heap, live, provider_calls, running, request_queue, response_queue, threads,
                    last_response, agents, selected_agent, submitted, polled, failed >>

----------------------------------------------------------------------------
(* What the two handlers do to conversation_history (engine.py 226-240 and
   287-290).  Agent.__init__ sets neither conversation_history nor
   max_history, so in the game both handlers raise at their first read of
   the attribute (SendMessageToAgent, ProcessResponses above).  These
   definitions follow the same lines on an agent object that has been given
   the two attributes, to settle what the lines compute. *)

\* the values of max_history followed; the configuration does not validate it
HistoryLimits == 0 .. CallerMaxHistory

\* the system prompt of an agent, as a turn
SystemPrompt == SystemTurn("You are a helpful agent")

\* the histories an agent starts from: empty, or a leading system turn
StartingHistories == { << >>, << SystemPrompt >> }

\* the text of a success response
ResponseTexts == {"Hel"}

\* an agent object with a max_history attribute
WithMaxHistory(ag, max_history) == ag @@ [max_history |-> max_history]

\* _send_message_to_agent, lines 226-240: append the user turn, then trim
HistoryAfterDispatch(history, message, max_history) ==
    TrimHistory(Append(history, UserTurn(message)), max_history)

\* _process_llm_responses, lines 287-290: append the assistant turn
HistoryAfterSuccess(history, text) == Append(history, AssistantTurn(text))

\* the number of turns of a history that are not system turns
NonSystemTurns(history) ==
    Cardinality({ i \in DOMAIN history : history[i].role # "system" })

\* lines 226-240 applied to agent a; the list the attribute was bound to
\* before the trim has no other referent
RouterDispatch(a, message) ==
    /\ mainpc = "run"
    /\ Len(heap[live[a]]) < MaxTurns
    /\ heap' = [heap EXCEPT
                  ![live[a]] = HistoryAfterDispatch(@, message, agents[a].max_history)]
    /\ UNCHANGED << observed, providers, live, provider_calls, running, worker_thread, request_queue,
                    response_queue, threads, mainpc, last_response, agents, selected_agent,
                    submitted, polled, failed >>

\* GameEngine._send_message_to_agent, lines 220-256 in whole, on a selected
\* agent that carries a conversation_history and a max_history: append the
\* user turn, trim, set_state(THINKING), send_message with the history
SendMessageWithHistory(message) ==
    /\ mainpc = "run"
    /\ selected_agent # None
    /\ Len(submitted) < MaxRequests
    /\ Len(heap[live[selected_agent]]) < MaxTurns
    /\ LET a == selected_agent
           history == HistoryAfterDispatch(heap[live[a]], message, agents[a].max_history)
           request == NewRequest(a, AgentProvider[a], AgentModel[a], message,
                                 Private(history), Len(submitted) + 1)
       IN  /\ heap' = [heap EXCEPT ![live[a]] = history]
           /\ agents' = [agents EXCEPT ![a] = SetState(agents[a], "thinking", 0, 0)]
           /\ submitted' = Append(submitted, request)
           /\ request_queue' = Enqueue(request_queue, request)
    /\ UNCHANGED << observed, providers, live, provider_calls, running, worker_thread,
                    response_queue, threads, mainpc, last_response, selected_agent,
                    polled, failed >>

\* lines 287-290 applied to agent a
RouterSuccess(a, text) ==
    /\ mainpc = "run"
    /\ Len(heap[live[a]]) < MaxTurns
    /\ heap' = [heap EXCEPT ![live[a]] = HistoryAfterSuccess(@, text)]
    /\ UNCHANGED << observed, providers, live, provider_calls, running, worker_thread, request_queue,
                    response_queue, threads, mainpc, last_response, agents, selected_agent,
                    submitted, polled, failed >>

----------------------------------------------------------------------------
(* A caller of Agent's public methods (entities.py): update(dt) and
   set_state(new_state) in any order, the way the engine's update loop and
   response handling use them. *)

AgentStates == {"idle", "thinking", "talking", "error"}

\* the agents whose methods are called
AnimatedAgents == {FirstAgent}

\* the values of dt followed, in quarter seconds
DtDraws == 1 .. MaxDt

\* random.uniform(3.0, 5.0), in quarter seconds.  The draw is only compared
\* with state_timer: the lowest draw makes every timer above 3.0 exceed it,
\* the highest makes only the timers above 5.0 exceed it, and every draw in
\* between gives one of these two outcomes for a given timer or is followed
\* by the same pick one update later.
WaitDraws == { IdleWaitMin * TicksPerSecond, IdleWaitMax * TicksPerSecond }

\* the pairs of random.randint(-64, 64) followed: along one axis, or none
OffsetDraws == { << 0, 0 >>, << TargetOffset, 0 >>, << 0, -TargetOffset >> }

\* update(dt) or set_state(new_state) consumes the draws of
\* _pick_random_target
UpdateDraws(ag, dt, wait) ==
    LET timed == [ag EXCEPT !.state_timer = ag.state_timer + dt]
    IN  /\ Subscriptable(ag.world_bounds)
        /\ \/ timed.state = "idle" /\ IdlePicks(timed, wait)
           \/ /\ timed.state = "error"
              /\ timed.state_timer >= ErrorSeconds * TicksPerSecond

\* agent.update(dt), one call.  Idle and Error reset state_timer themselves;
\* an agent in Thinking or Talking is followed while its state_timer is
\* below max_timer.
UpdateUpTo(a, dt, max_timer) ==
    /\ mainpc = "run"
    /\ agents[a].state \in {"idle", "error"} \/ agents[a].state_timer < max_timer
    /\ \E wait \in WaitDraws, offset \in OffsetDraws :
         LET draws == UpdateDraws(agents[a], dt, wait)
         IN  /\ draws => observed.draws < MaxDraws
             /\ agents' = [agents EXCEPT
                             ![a] = Update(agents[a], dt, wait, offset[1], offset[2])]
             /\ mainpc' = IF UpdateRaises(agents[a], dt, wait) THEN "raised" ELSE "run"
             /\ observed' = [observed EXCEPT
                               !.draws = IF draws THEN @ + 1 ELSE @]
    /\ UNCHANGED << providers, heap, live, provider_calls, running, worker_thread,
                    request_queue, response_queue, threads, last_response, selected_agent,
                    submitted, polled, failed >>

AgentUpdate(a, dt) == UpdateUpTo(a, dt, MaxTimer)

\* agent.set_state(new_state), one call from outside the agent, the
\* max_calls-th at most
SetStateUpTo(a, new_state, max_calls) ==
    /\ mainpc = "run"
    /\ observed.calls < max_calls
    /\ \E offset \in OffsetDraws :
         LET draws == new_state = "idle" /\ Subscriptable(agents[a].world_bounds)
         IN  /\ draws => observed.draws < MaxDraws
             /\ agents' = [agents EXCEPT
                             ![a] = SetState(agents[a], new_state, offset[1], offset[2])]
             /\ observed' = [observed EXCEPT
                               !.calls = @ + 1,
                               !.draws = IF draws THEN @ + 1 ELSE @]
    /\ mainpc' = IF SetStateRaises(agents[a], new_state) THEN "raised" ELSE "run"
    /\ UNCHANGED << providers, heap, live, provider_calls, running, worker_thread,
                    request_queue, response_queue, threads, last_response, selected_agent,
                    submitted, polled, failed >>

AgentSetState(a, new_state) == SetStateUpTo(a, new_state, MaxSetStates)

\* SpeechBubble.lifetime, seconds
BubbleLifetime == 10

\* an agent is followed in Talking until its bubble's lifetime has passed
TalkingHorizon == BubbleLifetime * TicksPerSecond + 1

\* agent.update(dt) for as long as a speech bubble lives
LongUpdate(a, dt) == UpdateUpTo(a, dt, TalkingHorizon)

\* the one set_state(TALKING) of a success response
EnterTalking(a) == SetStateUpTo(a, "talking", 1)

\* the one set_state(THINKING) of a dispatched message
EnterThinking(a) == SetStateUpTo(a, "thinking", 1)

\* the states whose rule animates the agent around a stored base
AnimatedStates == {"talking", "error"}

\* set_state(TALKING) or set_state(ERROR) as _process_llm_responses calls
\* them, whatever the agent is doing
EpisodeEnter(a, new_state) ==
    /\ new_state \in AnimatedStates
    /\ SetStateUpTo(a, new_state, MaxEpisodes)

\* agent.update(dt) on an agent that is bobbing or shaking
EpisodeUpdate(a, dt) ==
    /\ agents[a].state \in AnimatedStates
    /\ UpdateUpTo(a, dt, MaxTimer)

----------------------------------------------------------------------------
(* Specifications *)

\* the methods of LLMClient, called in any order by the main thread
Client ==
    \/ Start
    \/ StopSignal
    \/ StopJoin
    \/ Submit
    \/ GetResponse

Next == Client \/ Worker

\* every use of the client by the main thread, with the workers it starts
Spec == Init /\ [][Next]_vars

\* the engine's handlers, and any caller of send_message
Engine ==
    \/ Start
    \/ Submit
    \/ ProcessResponses
    \/ \E a \in AgentIds : HandleAgentClick(a)
    \/ \E m \in Messages : SendMessageToAgent(m)
    \/ Cleanup
    \/ CleanupJoin

EngineNext == Engine \/ Worker

\* the game: the engine's handlers over the client
EngineSpec == Init /\ [][EngineNext]_vars

\* the game with every worker thread scheduled, every provider call
\* returning and the main loop draining the response queue each frame
EngineLiveSpec ==
    /\ EngineSpec
    /\ \A t \in ThreadIds : WF_vars(WorkerStep(t))
    /\ WF_vars(ProcessResponses)

\* one client that is started and never stopped
RunNext == Start \/ Submit \/ GetResponse \/ Worker

RunSpec == Init /\ [][RunNext]_vars

\* the same, with every worker thread scheduled and every provider call
\* returning
LiveSpec == RunSpec /\ \A t \in ThreadIds : WF_vars(WorkerStep(t))

\* a caller of send_message that stops after MaxTracedRequests calls
TracedSubmit == Len(submitted) < MaxTracedRequests /\ Submit

StreamNext == Start \/ TracedSubmit \/ GetResponse \/ Worker

\* one client over the fake adapter, started and never stopped
StreamSpec == InitWith(StreamProviders) /\ [][StreamNext]_vars

\* the same, with every worker thread scheduled, every provider call
\* returning and the main loop polling
StreamLiveSpec ==
    /\ StreamSpec
    /\ \A t \in ThreadIds : WF_vars(WorkerStep(t))
    /\ WF_vars(GetResponse)

OllamaNext == Start \/ Submit \/ GetResponse \/ OllamaWorker

\* one client over an OllamaProvider followed line by line
OllamaSpec == InitWith(OllamaProviders) /\ [][OllamaNext]_vars

\* a client fed by callers that go on appending to and trimming the lists
\* they passed
HistoryNext ==
    \/ Start
    \/ TracedSubmit
    \/ \E a \in AgentIds : CallerAppend(a)
    \/ \E a \in AgentIds : CallerTrim(a)
    \/ Worker

HistorySpec == Init /\ [][HistoryNext]_vars

\* the number of user turns of a history
UserTurns(history) ==
    Cardinality({ i \in DOMAIN history : history[i].role = "user" })

\* the number of dispatches for agent a among the first r requests
DispatchedFor(a, r) ==
    Cardinality({ i \in 1 .. r : submitted[i].agent_id = a })

\* agents that carry a history and a max_history, before any turn
RouterInit ==
    /\ providers = BasicProviders
    /\ heap \in [1 .. Cardinality(AgentIds) -> StartingHistories]
    /\ live = LiveObject
    /\ provider_calls = [r \in RequestIds |-> NoCalls]
    /\ running = FALSE
    /\ worker_thread = NoThread
    /\ request_queue = << >>
    /\ response_queue = << >>
    /\ threads = [t \in ThreadIds |-> UnbornThread]
    /\ mainpc = "run"
    /\ last_response = NoResponse
    /\ agents \in { [a \in AgentIds |->
                        WithMaxHistory([NewAgent(a) EXCEPT !.selected = (a = FirstAgent)],
                                       limit[a])] :
                    limit \in [AgentIds -> HistoryLimits] }
    /\ selected_agent = FirstAgent
    /\ submitted = << >>
    /\ polled = << >>
    /\ failed = {}
    /\ observed = NothingObserved

RouterNext ==
    \/ \E a \in AgentIds, m \in Messages : RouterDispatch(a, m)
    \/ \E a \in AgentIds, text \in ResponseTexts : RouterSuccess(a, text)

\* the history operations of the two handlers, in any order
RouterSpec == RouterInit /\ [][RouterNext]_vars

\* an agent built with a bounds dict, or with the World object as in main.py
AgentInit ==
    /\ providers = BasicProviders
    /\ heap = [i \in 1 .. Cardinality(AgentIds) |-> << >>]
    /\ live = LiveObject
    /\ provider_calls = [r \in RequestIds |-> NoCalls]
    /\ running = FALSE
    /\ worker_thread = NoThread
    /\ request_queue = << >>
    /\ response_queue = << >>
    /\ threads = [t \in ThreadIds |-> UnbornThread]
    /\ mainpc = "run"
    /\ last_response = NoResponse
    /\ agents \in { [a \in AgentIds |->
                        IF a \in AnimatedAgents THEN AgentWith(a, world_bounds)
                                                ELSE NewAgent(a)] :
                    world_bounds \in {WorldBounds, WorldObject} }
    /\ selected_agent = FirstAgent
    /\ submitted = << >>
    /\ polled = << >>
    /\ failed = {}
    /\ observed = NothingObserved

AgentNext ==
    \/ \E a \in AnimatedAgents, dt \in DtDraws : AgentUpdate(a, dt)
    \/ \E a \in AnimatedAgents, new_state \in AgentStates : AgentSetState(a, new_state)

\* one agent and a caller of its methods
AgentSpec == AgentInit /\ [][AgentNext]_vars

TalkingNext ==
    \/ \E a \in AnimatedAgents, dt \in DtDraws : LongUpdate(a, dt)
    \/ \E a \in AnimatedAgents : EnterTalking(a)

\* one agent that is put in Talking once and updated for as long as its
\* speech bubble lives
TalkingSpec == AgentInit /\ [][TalkingNext]_vars

EpisodeNext ==
    \/ \E a \in AnimatedAgents, new_state \in AnimatedStates : EpisodeEnter(a, new_state)
    \/ \E a \in AnimatedAgents, dt \in DtDraws : EpisodeUpdate(a, dt)

\* one agent standing at its spawn point that is put in Talking or Error
\* again and again and updated only while it animates
EpisodeSpec == AgentInit /\ [][EpisodeNext]_vars

DispatchNext ==
    \/ Start
    \/ \E m \in Messages : SendMessageWithHistory(m)
    \/ \E a \in AgentIds : HandleAgentClick(a)
    \/ Worker

\* user messages dispatched to agents that carry a history, and the worker
\* that serves them
DispatchSpec == RouterInit /\ [][DispatchNext]_vars

PaceNext ==
    \/ \E a \in AnimatedAgents, dt \in DtDraws : LongUpdate(a, dt)
    \/ \E a \in AnimatedAgents : EnterThinking(a)

\* one agent that is put in Thinking once and updated while it waits for a
\* response
PaceSpec == AgentInit /\ [][PaceNext]_vars

\* the game loop: the engine's handlers, the per-frame update of the agents
\* and the set_state calls the handlers can make
GameNext ==
    \/ Start
    \/ TracedSubmit
    \/ ProcessResponses
    \/ \E a \in AgentIds : HandleAgentClick(a)
    \/ \E m \in Messages : SendMessageToAgent(m)
    \/ Worker
    \/ \E a \in AnimatedAgents, dt \in DtDraws : AgentUpdate(a, dt)
    \/ \E a \in AnimatedAgents, new_state \in AgentStates : AgentSetState(a, new_state)

\* the game as main.py builds it, frame by frame
GameSpec == Init /\ [][GameNext]_vars

\* positions an agent is given before _pick_random_target is called: inside
\* the bounds, near an edge, on the edges, and outside the bounds
PickPositions ==
    { [x |-> 640 * Milli, y |-> 360 * Milli],
      [x |-> WorldBounds.min_x + 10 * Milli, y |-> WorldBounds.min_y + 10 * Milli],
      [x |-> WorldBounds.min_x, y |-> WorldBounds.max_y],
      [x |-> WorldBounds.max_x, y |-> WorldBounds.min_y],
      [x |-> WorldBounds.min_x - 100 * Milli, y |-> WorldBounds.max_y + 100 * Milli],
      [x |-> WorldBounds.max_x + 30 * Milli, y |-> 360 * Milli] }

\* random.randint(-64, 64): every value for offset_x, the ends and the
\* middle for offset_y
PickOffsets == (-TargetOffset .. TargetOffset) \X {-TargetOffset, 0, TargetOffset}

\* the first agent is one of `placed`, nothing else has happened
PlacedInit(placed) ==
    /\ providers = BasicProviders
    /\ heap = [i \in 1 .. Cardinality(AgentIds) |-> << >>]
    /\ live = LiveObject
    /\ provider_calls = [r \in RequestIds |-> NoCalls]
    /\ running = FALSE
    /\ worker_thread = NoThread
    /\ request_queue = << >>
    /\ response_queue = << >>
    /\ threads = [t \in ThreadIds |-> UnbornThread]
    /\ mainpc = "run"
    /\ last_response = NoResponse
    /\ agents \in { [a \in AgentIds |-> IF a = FirstAgent THEN ag ELSE NewAgent(a)] :
                    ag \in placed }
    /\ selected_agent = FirstAgent
    /\ submitted = << >>
    /\ polled = << >>
    /\ failed = {}
    /\ observed = NothingObserved

\* agents built either way and then moved to any of these positions
PickInit ==
    PlacedInit({ [AgentWith(FirstAgent, world_bounds) EXCEPT !.position = position] :
                 world_bounds \in {WorldBounds, WorldObject},
                 position \in PickPositions })

\* Agent.__init__ with config['spawn_position'] = p
AgentAt(a, world_bounds, p) ==
    [AgentWith(a, world_bounds) EXCEPT !.position = p,
                                       !.target_position = p,
                                       !.bob_base_y = p.y,
                                       !.error_base_pos = p]

\* agents spawned inside the bounds and close to an edge: a dict-built one
\* on the corner of the margin, where clamped targets lead, and a World-built
\* one a pixel inside an edge
EdgeAgents ==
    { AgentAt(FirstAgent, WorldBounds,
              [x |-> WorldBounds.max_x - TargetMargin * Milli,
               y |-> WorldBounds.max_y - TargetMargin * Milli]),
      AgentAt(FirstAgent, WorldObject,
              [x |-> WorldBounds.min_x + Milli, y |-> 360 * Milli]) }

\* one agent near an edge and a caller of its methods
EdgeSpec == PlacedInit(EdgeAgents) /\ [][AgentNext]_vars

\* agent._pick_random_target(), called directly
PickTarget(a) ==
    /\ mainpc = "run"
    /\ observed.draws < MaxDraws
    /\ \E offset \in PickOffsets :
         agents' = [agents EXCEPT
                      ![a] = IF Subscriptable(agents[a].world_bounds)
                             THEN PickRandomTarget(agents[a], offset[1], offset[2])
                             ELSE agents[a]]
    /\ mainpc' = IF Subscriptable(agents[a].world_bounds) THEN "run" ELSE "raised"
    /\ observed' = [observed EXCEPT !.draws = @ + 1]
    /\ UNCHANGED << providers, heap, live, provider_calls, running, worker_thread,
                    request_queue, response_queue, threads, last_response, selected_agent,
                    submitted, polled, failed >>

PickNext == \E a \in AnimatedAgents : PickTarget(a)

\* random target selection alone, from every kind of position
PickSpec == PickInit /\ [][PickNext]_vars

\* an id that no agent of the engine has
StrayAgentId == "ghost"

\* send_message called with an agent_id the engine does not know
SubmitStray ==
    \E m \in Messages :
        SendMessage(StrayAgentId, AgentProvider[FirstAgent], AgentModel[FirstAgent], m,
                    Private(<< >>))

StrayNext == Start \/ Submit \/ SubmitStray \/ ProcessResponses \/ Worker

\* the engine's response handling over a client that is also used for ids
\* the engine does not know
StraySpec == Init /\ [][StrayNext]_vars

\* a worker's steps outside provider calls
WorkerLoopStep(t) == WorkerCheck(t) \/ WorkerGet(t) \/ WorkerLookup(t)

\* a client that is started, fed and stopped in any order, where some worker
\* thread outside a provider call is scheduled and the join ends, but a
\* provider call need never return
StopNext == Start \/ StopSignal \/ StopJoin \/ Submit \/ Worker

StopLiveSpec ==
    /\ Init /\ [][StopNext]_vars
    /\ WF_vars(StopJoin)
    /\ WF_vars(\E t \in ThreadIds : WorkerLoopStep(t))

\* the same client, with every worker thread scheduled and every provider
\* call returning
StopExitLiveSpec ==
    /\ Init /\ [][StopNext]_vars
    /\ \A t \in ThreadIds : WF_vars(WorkerStep(t))

----------------------------------------------------------------------------
(* What the claims speak of *)

\* thread t holds a request it has dequeued and not yet answered
InFlight(t) == threads[t].pc \in {"call", "avail", "stream"}

\* request number r waits in the request queue
InRequestQueue(r) == \E i \in DOMAIN request_queue : request_queue[i].rid = r

\* request number r has been dequeued and its processing is not over
BeingProcessed(r) == \E t \in ThreadIds : InFlight(t) /\ threads[t].request.rid = r

\* the number of responses produced so far for request number r
Produced(r) ==
    Cardinality({ i \in DOMAIN response_queue : response_queue[i].rid = r })
    + Cardinality({ i \in DOMAIN polled : polled[i] = r })

\* request numbers in the order their responses leave, then will leave, the
\* response queue
ResponseOrder ==
    polled \o [ i \in DOMAIN response_queue |-> response_queue[i].rid ]

----------------------------------------------------------------------------
(* Claims *)

\* C1: responses are returned by get_response in the order their requests
\* were submitted, after any interleaving of submit, poll and worker steps.
C1_ResponsesInSubmissionOrder ==
    \A i, j \in DOMAIN ResponseOrder :
        i < j => ResponseOrder[i] < ResponseOrder[j]

C1_Witness == polled = << 1, 2 >>

\* C2: at most one provider call is executing at any moment, for every
\* interleaving of submit, poll, start and stop.
C2_AtMostOneCall ==
    Cardinality({ t \in ThreadIds : InProviderCall(t) }) <= 1

\* C3: at most one worker thread is alive at any time, for every sequence of
\* start() and stop() calls.
C3_AtMostOneWorker ==
    Cardinality({ t \in ThreadIds : Alive(t) }) <= 1

\* C4: every dequeued request produces exactly one response with its
\* agent_id: none while it is processed, one from then on; a request whose
\* processing raised is answered with status error and without text.
C4_ExactlyOneResponse ==
    \A r \in 1..Len(submitted) :
        /\ (InRequestQueue(r) \/ BeingProcessed(r)) => Produced(r) = 0
        /\ ~(InRequestQueue(r) \/ BeingProcessed(r)) => Produced(r) = 1
        /\ \A i \in DOMAIN response_queue :
             response_queue[i].rid = r =>
               /\ response_queue[i].agent_id = submitted[r].agent_id
               /\ IF \E f \in failed : f.rid = r
                  THEN /\ response_queue[i].status = "error"
                       /\ response_queue[i].text = None
                  ELSE response_queue[i].status = "success"

\* a stream raised after it had yielded a chunk, and the request has its one
\* response
C4_Witness ==
    \E f \in failed :
        /\ f.partial > 0
        /\ \E i \in DOMAIN response_queue : response_queue[i].rid = f.rid
        /\ Produced(f.rid) = 1

\* C5: while the client is started and not stopped, once a request has ended
\* in an error every request waiting in the queue is eventually answered.
C5_WorkerSurvivesErrors ==
    \A r \in RequestIds :
        (running /\ worker_thread # NoThread /\ failed # {} /\ InRequestQueue(r))
            ~> (Produced(r) = 1)

\* a request submitted behind a failed one has been answered
C5_Witness ==
    \E f \in failed : \E r \in 1..Len(submitted) :
        r > f.rid /\ Produced(r) = 1

\* C6: once stop() has set running to False, no worker begins to process a
\* request it had not dequeued before.
C6_NoCallAfterStop ==
    \A t \in ThreadIds : InFlight(t) => threads[t].dequeued_running

\* C7: stop() always returns, also when the worker is inside a provider call
\* that does not finish: the main thread is never inside the join of stop()
\* forever (it leaves the join only by stop() returning).
C7_StopReturns == []<>(mainpc # "joining")

\* stop() has returned while the worker it joined is still inside a provider
\* call
C7_Witness ==
    /\ mainpc = "run"
    /\ worker_thread = NoThread
    /\ ~running
    /\ \E t \in ThreadIds : InProviderCall(t)

\* C8: stop() leaves both queues as they are, and no response exists for a
\* request that is still being processed.
C8_StopLeavesQueues ==
    /\ [][ (StopSignal \/ StopJoin) =>
             /\ request_queue' = request_queue
             /\ response_queue' = response_queue ]_vars
    /\ [](\A t \in ThreadIds : InFlight(t) => Produced(threads[t].request.rid) = 0)

\* stop() is waiting on a worker inside a provider call while a request
\* waits in the queue
C8_Witness ==
    /\ mainpc = "joining"
    /\ InProviderCall(worker_thread)
    /\ request_queue # << >>

\* C9: send_message and get_response can always be taken at once by the main
\* thread, whatever the workers do, and get_response returns None on an
\* empty response queue.
C9_MainNeverBlocks ==
    /\ [](mainpc = "run" =>
            /\ ENABLED GetResponse
            /\ Len(submitted) < MaxRequests => ENABLED Submit)
    /\ [][ (GetResponse /\ response_queue = << >>) =>
             /\ last_response' = NoResponse
             /\ response_queue' = << >> ]_vars

\* a poll has returned None, after an earlier one returned a response, while
\* a worker is inside a provider call
C9_Witness ==
    /\ mainpc = "run"
    /\ polled # << >>
    /\ last_response = NoResponse
    /\ \E t \in ThreadIds : InProviderCall(t)

\* C10: no step of a worker thread changes an agent; agents change only in
\* the engine's handlers on the main thread.
C10_WorkerLeavesAgents ==
    [][ /\ Worker => agents' = agents
        /\ agents' # agents => (ProcessResponses \/ \E a \in AgentIds : HandleAgentClick(a))
      ]_vars

\* an agent has been put in Error by the main thread, and a worker has since
\* answered another request
C10_Witness ==
    /\ \E a \in AgentIds : agents[a].state = "error"
    /\ response_queue # << >>

\* the history lists carried by request number r, wherever it is held
HeldHistory(r) ==
    { Items(request_queue[i].history) :
        i \in { j \in DOMAIN request_queue : request_queue[j].rid = r } }
    \cup { Items(threads[t].request.history) :
             t \in { u \in ThreadIds : InFlight(u) /\ threads[u].request.rid = r } }

\* C11: the history a request carries is the caller's list as it was at
\* submission and never changes while the request is queued or processed,
\* whatever the caller appends or trims afterwards; the list the worker sends
\* is that history plus the user turn, and no worker step changes a caller's
\* list.
C11_HistoryIsSnapshot ==
    [][ /\ \A r \in RequestIds :
             /\ (HeldHistory(r) = {} /\ HeldHistory(r)' # {}) =>
                    HeldHistory(r)' = { heap[live[submitted'[r].agent_id]] }
             /\ (HeldHistory(r) # {} /\ HeldHistory(r)' # {}) =>
                    HeldHistory(r)' = HeldHistory(r)
        /\ \A t \in ThreadIds :
             (threads[t].pc = "avail" /\ threads'[t].pc = "stream") =>
                 Items(threads'[t].messages) =
                     Append(Items(threads[t].request.history),
                            UserTurn(threads[t].request.message))
        /\ Worker => (heap' = heap /\ live' = live)
      ]_vars

\* a worker has built its message list from a non-empty history while the
\* caller's list has since grown and been replaced by a trimmed one
C11_Witness ==
    \E t \in ThreadIds :
        /\ threads[t].pc = "stream"
        /\ Items(threads[t].request.history) # << >>
        /\ live[threads[t].request.agent_id] # LiveObject[threads[t].request.agent_id]
        /\ Len(heap[LiveObject[threads[t].request.agent_id]])
             > Len(Items(threads[t].request.history))

\* c1 + ... + cn
RECURSIVE Concatenation(_)
Concatenation(chunks) ==
    IF Len(chunks) = 0 THEN ""
    ELSE Concatenation(SubSeq(chunks, 1, Len(chunks) - 1)) \o chunks[Len(chunks)]

\* the stream of request number r was consumed to its end and yielded some text
StreamedText(r) ==
    /\ provider_calls[r].returned
    /\ Concatenation(provider_calls[r].yielded) # ""

\* get_response has returned the response of request number r
Polled(r) == \E i \in DOMAIN polled : polled[i] = r

\* C12: a request whose provider was available and whose stream yielded
\* c1..cn with non-empty concatenation and ended has exactly one response:
\* a success whose text is c1+...+cn in yield order and whose agent_id is the
\* request's; and get_response eventually returns it.
C12_SuccessTextIsConcatenation ==
    /\ [](\A r \in RequestIds :
            StreamedText(r) =>
              /\ Produced(r) = 1
              /\ \A i \in DOMAIN response_queue :
                   response_queue[i].rid = r =>
                     /\ response_queue[i].status = "success"
                     /\ response_queue[i].text = Concatenation(provider_calls[r].yielded)
                     /\ response_queue[i].agent_id = submitted[r].agent_id
              /\ last_response.rid = r =>
                     /\ last_response.status = "success"
                     /\ last_response.text = Concatenation(provider_calls[r].yielded)
                     /\ last_response.agent_id = submitted[r].agent_id)
    /\ \A r \in RequestIds : StreamedText(r) ~> Polled(r)

\* get_response has returned "Hello" for a stream that yielded "Hel", "lo"
C12_Witness ==
    /\ last_response.status = "success"
    /\ last_response.text = "Hello"
    /\ provider_calls[last_response.rid].yielded = << "Hel", "lo" >>

\* C13: a request whose provider answered is_available() with False has its
\* error response from then on, and send_message has not been called on the
\* provider for it, nor has the provider yielded anything for it.
C13_UnavailableNeverSent ==
    \A r \in RequestIds :
        provider_calls[r].is_available = "False" =>
          /\ ~provider_calls[r].send_message
          /\ provider_calls[r].yielded = << >>
          /\ Produced(r) = 1
          /\ \A i \in DOMAIN response_queue :
               response_queue[i].rid = r =>
                 /\ response_queue[i].status = "error"
                 /\ response_queue[i].agent_id = submitted[r].agent_id
          /\ last_response.rid = r => last_response.status = "error"

\* get_response has returned the error response of a request whose provider
\* was not available, and the worker is back in its loop
C13_Witness ==
    /\ last_response.rid \in RequestIds
    /\ provider_calls[last_response.rid].is_available = "False"
    /\ last_response.status = "error"
    /\ \A t \in ThreadIds : ~InFlight(t)

\* C14: when the response applied to an agent is the error of an unavailable
\* provider ("<name> is not available"), the text shown in the agent's Error
\* state is "Can't reach LLM service".
C14_UnavailableShownUnreachable ==
    \A a \in AgentIds :
        ( /\ AgentProvider[a] \in DOMAIN providers
          /\ last_response.agent_id = a
          /\ last_response.status = "error"
          /\ last_response.error = providers[AgentProvider[a]].name \o " is not available"
          /\ agents[a].state = "error" )
        => agents[a].speech_bubble.text = "Can't reach LLM service"

\* the stream of request number r was consumed to its end and yielded no text
StreamedNothing(r) ==
    /\ provider_calls[r].returned
    /\ Concatenation(provider_calls[r].yielded) = ""

\* C15: a stream that ends without raising and whose accumulated text is
\* empty (no chunks, or only empty chunks) gives the request one error
\* response; no success response ever carries an empty text.
C15_EmptyStreamIsError ==
    /\ \A r \in RequestIds :
         StreamedNothing(r) =>
           /\ Produced(r) = 1
           /\ \A i \in DOMAIN response_queue :
                response_queue[i].rid = r =>
                  /\ response_queue[i].status = "error"
                  /\ response_queue[i].text = None
           /\ last_response.rid = r => last_response.status = "error"
    /\ \A i \in DOMAIN response_queue :
         response_queue[i].status = "success" => response_queue[i].text # ""
    /\ last_response.status = "success" => last_response.text # ""

\* a stream that yielded only empty chunks has ended and its request has an
\* error response
C15_Witness ==
    \E r \in RequestIds :
        /\ StreamedNothing(r)
        /\ provider_calls[r].yielded # << >>
        /\ \E i \in DOMAIN response_queue :
             response_queue[i].rid = r /\ response_queue[i].status = "error"

\* C16: what the worker accumulates for a request is bounded by the maximum
\* chunk count and the maximum cumulative length, and a request whose stream
\* was truncated at a bound has one success response with the truncated text.
C16_TruncatedStreamSucceeds ==
    \A r \in RequestIds :
        LET provider == providers[AgentProvider[FirstAgent]]
            text == Concatenation(provider_calls[r].yielded)
        IN  /\ Len(provider_calls[r].yielded) <= provider.chunk_limit
            /\ Len(text) <= provider.length_limit
            /\ provider_calls[r].truncated =>
                  /\ Produced(r) = 1
                  /\ \A i \in DOMAIN response_queue :
                       response_queue[i].rid = r =>
                         /\ response_queue[i].status = "success"
                         /\ response_queue[i].text = text
                  /\ last_response.rid = r =>
                         /\ last_response.status = "success"
                         /\ last_response.text = text

\* C17: after every appending operation of the two handlers the history of
\* an agent holds at most max_history pairs, that is at most 2 * max_history
\* turns that are not system turns.
C17_HistoryHoldsMaxPairs ==
    \A a \in AgentIds :
        NonSystemTurns(heap[live[a]]) <= 2 * agents[a].max_history

\* the history `after` an append of `turn` to the history `before` keeps the
\* leading system turn of `before` in front and once, followed by the most
\* recent turns in their order
KeepsLeadingSystemTurn(before, turn, after) ==
    (before # << >> /\ before[1].role = "system") =>
        /\ after # << >>
        /\ after[1] = before[1]
        /\ Cardinality({ i \in DOMAIN after : after[i] = before[1] }) = 1
        /\ Tail(after) = LastItems(Tail(Append(before, turn)), Len(after) - 1)

\* C18: an append-and-trim on a history that starts with a system turn leaves
\* that system turn first, exactly once, followed by the most recent turns in
\* their chronological order.
C18_TrimKeepsSystemTurn ==
    [][ \A a \in AgentIds :
          /\ \A m \in Messages :
                RouterDispatch(a, m) =>
                    KeepsLeadingSystemTurn(heap[live[a]], UserTurn(m), heap'[live[a]])
          /\ \A text \in ResponseTexts :
                RouterSuccess(a, text) =>
                    KeepsLeadingSystemTurn(heap[live[a]], AssistantTurn(text),
                                           heap'[live[a]])
      ]_vars

\* C19: dispatching a user message for the selected agent appends one user
\* turn with that text to that agent's history, puts that agent in Thinking
\* with state_timer 0 and enqueues one request carrying the agent's id,
\* provider name and model; no other agent's state or history changes.
C19_DispatchAppendsThinksEnqueues ==
    [][ \A m \in Messages :
          SendMessageToAgent(m) =>
              LET a == selected_agent
                  history == heap'[live'[a]]
              IN  /\ history # << >>
                  /\ history[Len(history)] = UserTurn(m)
                  /\ agents'[a].state = "thinking"
                  /\ agents'[a].state_timer = 0
                  /\ Len(request_queue') = Len(request_queue) + 1
                  /\ SubSeq(request_queue', 1, Len(request_queue)) = request_queue
                  /\ LET request == request_queue'[Len(request_queue')]
                     IN  /\ request.agent_id = a
                         /\ request.provider = AgentProvider[a]
                         /\ request.model = AgentModel[a]
                         /\ request.message = m
                  /\ \A b \in AgentIds \ {a} :
                        /\ agents'[b] = agents[b]
                        /\ heap'[live'[b]] = heap[live[b]]
      ]_vars

\* C20: a dispatch that enqueues no request puts the target agent in Error,
\* and no agent is in Thinking unless a request was submitted on its behalf.
C20_UndeliveredMeansError ==
    [][ /\ \A m \in Messages :
             (SendMessageToAgent(m) /\ request_queue' = request_queue) =>
                 agents'[selected_agent].state = "error"
        /\ \A a \in AgentIds :
             agents'[a].state = "thinking" =>
                 \E i \in DOMAIN submitted' : submitted'[i].agent_id = a
      ]_vars

\* the response _process_llm_responses takes next is for an existing agent
\* and has the given status
NextResponseIs(status) ==
    /\ response_queue # << >>
    /\ Head(response_queue).status = status
    /\ Head(response_queue).agent_id \in AgentIds

\* C21: applying a success response for an existing agent appends one
\* assistant turn with the response text to that agent's history and leaves
\* the agent in Talking with state_timer 0; no other agent is changed.
C21_SuccessAppendsAndTalks ==
    [][ (ProcessResponses /\ NextResponseIs("success")) =>
            LET response == Head(response_queue)
                a == response.agent_id
            IN  /\ heap'[live'[a]] = Append(heap[live[a]], AssistantTurn(response.text))
                /\ agents'[a].state = "talking"
                /\ agents'[a].state_timer = 0
                /\ \A b \in AgentIds \ {a} :
                      /\ agents'[b] = agents[b]
                      /\ heap'[live'[b]] = heap[live[b]]
      ]_vars

\* C22: applying an error response for an existing agent puts that agent in
\* Error, leaves every conversation history as it was and raises nothing in
\* the main loop.
C22_ErrorLeavesHistory ==
    [][ (ProcessResponses /\ NextResponseIs("error")) =>
            LET a == Head(response_queue).agent_id
            IN  /\ agents'[a].state = "error"
                /\ agents'[a].state_timer = 0
                /\ heap' = heap
                /\ live' = live
                /\ mainpc' = "drain"
      ]_vars

\* an error response has been applied: its agent is in Error under an error
\* bubble and the drain loop goes on
C22_Witness ==
    /\ mainpc = "drain"
    /\ last_response.status = "error"
    /\ last_response.agent_id \in AgentIds
    /\ agents[last_response.agent_id].state = "error"
    /\ agents[last_response.agent_id].speech_bubble.is_error

\* C23: a response whose agent_id matches no agent is discarded: no agent and
\* no history changes, nothing is raised, and the drain loop goes on; the
\* loop ends only on an empty response queue, so every response behind the
\* discarded one is taken in the same call.
C23_StrayResponseDiscarded ==
    [][ /\ (ProcessResponses /\ response_queue # << >>
              /\ Head(response_queue).agent_id \notin AgentIds) =>
                /\ agents' = agents
                /\ heap' = heap
                /\ live' = live
                /\ response_queue' = Tail(response_queue)
                /\ mainpc' = "drain"
        /\ (mainpc = "drain" /\ mainpc' = "run") => response_queue = << >>
        /\ mainpc = "drain" => (ProcessResponses \/ Worker)
      ]_vars

\* a response for an unknown id has been discarded and the loop has gone on
\* to apply the response behind it
C23_Witness ==
    /\ mainpc = "drain"
    /\ Len(polled) = 2
    /\ submitted[polled[1]].agent_id = StrayAgentId
    /\ last_response.agent_id \in AgentIds
    /\ agents[last_response.agent_id].state = "error"

\* C24: an agent in Talking returns to Idle under update(dt) alone, at the
\* latest when the lifetime of its speech bubble has passed: no agent is in
\* Talking with a state_timer that has reached that lifetime.
C24_TalkingEnds ==
    \A a \in AgentIds :
        agents[a].state = "talking" =>
            agents[a].state_timer < BubbleLifetime * TicksPerSecond

\* the target of ag is one _pick_random_target can have chosen from the
\* position of ag
FreshTarget(ag) ==
    \E ox \in -TargetOffset .. TargetOffset :
        /\ Subscriptable(ag.world_bounds)
        /\ ag.target_position.x = PickRandomTarget(ag, ox, 0).target_position.x
        /\ \E oy \in -TargetOffset .. TargetOffset :
              ag.target_position.y = PickRandomTarget(ag, 0, oy).target_position.y

\* C25: an agent in Error that is only updated stays in Error while its
\* state_timer is below 2.0 seconds, and at the first update at which the
\* timer reaches 2.0 seconds it is in Idle with state_timer 0 and a freshly
\* picked target.
C25_ErrorEndsAfterTwoSeconds ==
    [][ \A a \in AnimatedAgents, dt \in DtDraws :
          (AgentUpdate(a, dt) /\ agents[a].state = "error") =>
              IF agents[a].state_timer + dt < ErrorSeconds * TicksPerSecond
              THEN /\ agents'[a].state = "error"
                   /\ agents'[a].state_timer = agents[a].state_timer + dt
              ELSE /\ agents'[a].state = "idle"
                   /\ agents'[a].state_timer = 0
                   /\ FreshTarget(agents'[a])
      ]_vars

\* C26: at the update that takes an agent from Error to Idle because its
\* state_timer reached 2.0 seconds, the agent's position equals the
\* error_base_pos captured when it entered Error.
C26_ShakeReturnsToBaseline ==
    [][ \A a \in AnimatedAgents, dt \in DtDraws :
          ( /\ AgentUpdate(a, dt)
            /\ agents[a].state = "error"
            /\ agents'[a].state = "idle" ) =>
              agents'[a].position = agents[a].error_base_pos
      ]_vars

\* C27: an update of an agent in Talking leaves position.y within the bob
\* amplitude of bob_base_y, and leaves position.x and bob_base_y as they
\* were, whatever the number of updates before it and whatever dt.
C27_BobStaysWithinAmplitude ==
    [][ \A a \in AnimatedAgents, dt \in DtDraws :
          (LongUpdate(a, dt) /\ agents[a].state = "talking") =>
              /\ Abs(agents'[a].position.y - agents'[a].bob_base_y)
                     <= BobAmplitude * Milli
              /\ agents'[a].bob_base_y = agents[a].bob_base_y
              /\ agents'[a].position.x = agents[a].position.x
      ]_vars

\* an agent that has bobbed for the lifetime of a bubble and is off its base
C27_Witness ==
    \E a \in AnimatedAgents :
        /\ agents[a].state = "talking"
        /\ agents[a].state_timer >= BubbleLifetime * TicksPerSecond
        /\ agents[a].position.y # agents[a].bob_base_y
        /\ agents[a].position # SpawnPosition[a]

\* C28: through any sequence of Talking and Error episodes that starts at
\* the spawn point, the base the animation is computed from (bob_base_y in
\* Talking, error_base_pos in Error) stays within one animation amplitude
\* of the position the agent had before the first episode.
C28_BaseNeverDrifts ==
    \A a \in AnimatedAgents :
        /\ agents[a].state = "talking" =>
              Abs(agents[a].bob_base_y - SpawnPosition[a].y) <= BobAmplitude * Milli
        /\ agents[a].state = "error" =>
              /\ Abs(agents[a].error_base_pos.x - SpawnPosition[a].x)
                     <= ShakeAmplitude * Milli
              /\ Abs(agents[a].error_base_pos.y - SpawnPosition[a].y)
                     <= BobAmplitude * Milli

\* C29: every call set_state(new_state) leaves state = new_state and
\* state_timer = 0, whatever the state and the timer were before, the same
\* state included.
C29_SetStateResetsTimer ==
    [][ \A a \in AnimatedAgents, new_state \in AgentStates :
          AgentSetState(a, new_state) =>
              /\ agents'[a].state = new_state
              /\ agents'[a].state_timer = 0
      ]_vars

\* an agent put in Error again while it was shaking: the base it captured is
\* a shake offset away from the spawn point it never walked from
C29_Witness ==
    \E a \in AnimatedAgents :
        /\ agents[a].state = "error"
        /\ agents[a].state_timer = 0
        /\ observed.calls = MaxSetStates
        /\ observed.draws = 0
        /\ agents[a].error_base_pos.x # SpawnPosition[a].x
        /\ Abs(agents[a].error_base_pos.x - SpawnPosition[a].x) <= ShakeAmplitude * Milli

\* C30: set_state(s) on an agent that is already in state s changes nothing
\* but the timer: the state stays s, state_timer becomes 0, and bob_base_y,
\* bob_offset, error_base_pos, pace_direction and target_position keep
\* their values.
C30_SameStateOnlyResetsTimer ==
    [][ \A a \in AnimatedAgents, new_state \in AgentStates :
          (AgentSetState(a, new_state) /\ agents[a].state = new_state) =>
              /\ agents'[a].state = new_state
              /\ agents'[a].state_timer = 0
              /\ agents'[a].bob_base_y = agents[a].bob_base_y
              /\ agents'[a].bob_offset = agents[a].bob_offset
              /\ agents'[a].error_base_pos = agents[a].error_base_pos
              /\ agents'[a].pace_direction = agents[a].pace_direction
              /\ agents'[a].target_position = agents[a].target_position
      ]_vars

\* the position the rule of the agent's state gives on update(dt)
RulePosition(ag, dt, wait) ==
    LET timed == [ag EXCEPT !.state_timer = ag.state_timer + dt]
    IN  CASE ag.state = "idle"     -> UpdateIdle(timed, dt, wait, 0, 0).position
          [] ag.state = "thinking" -> UpdateThinking(timed, dt).position
          [] ag.state = "talking"  -> UpdateTalking(timed, dt).position
          [] ag.state = "error"    -> UpdateError(timed, 0, 0).position

\* C31: an agent's position changes only in a step that is update(dt) of
\* that agent, and then to the position the rule of its current state
\* gives; set_state to any state, a click, a dispatched user message, an
\* applied response and the client with its worker leave every position as
\* it was.
C31_PositionOnlyByUpdateRule ==
    [][ \A a \in AgentIds :
          agents'[a].position # agents[a].position =>
              /\ a \in AnimatedAgents
              /\ \E dt \in DtDraws :
                    /\ AgentUpdate(a, dt)
                    /\ \E wait \in WaitDraws :
                          agents'[a].position = RulePosition(agents[a], dt, wait)
      ]_vars

\* an error response has just been applied to an agent that had been put in
\* Thinking and had paced away from its spawn point
C31_Witness ==
    \E a \in AnimatedAgents :
        /\ agents[a].speech_bubble.is_error
        /\ agents[a].state = "error"
        /\ agents[a].state_timer = 0
        /\ agents[a].position # SpawnPosition[a]
        /\ agents[a].target_position # SpawnPosition[a]
        /\ agents[a].error_base_pos = agents[a].position
        /\ observed.calls = 1

\* the target lies within the world bounds shrunk by the margin on each side
WithinMargin(target) ==
    /\ WorldBounds.min_x + TargetMargin * Milli <= target.x
    /\ target.x <= WorldBounds.max_x - TargetMargin * Milli
    /\ WorldBounds.min_y + TargetMargin * Milli <= target.y
    /\ target.y <= WorldBounds.max_y - TargetMargin * Milli

\* C32: every call of random target selection returns with a target chosen,
\* and the target lies within the world bounds shrunk by the margin on each
\* side, whatever the position (inside, on an edge, outside) and the offsets.
C32_TargetWithinBounds ==
    [][ \A a \in AnimatedAgents :
          PickTarget(a) =>
              /\ mainpc' = "run"
              /\ WithinMargin(agents'[a].target_position)
      ]_vars

\* C33: update(dt) on an agent whose target_position equals its position
\* returns without raising, in each of the four states.
C33_UpdateAtZeroDistance ==
    [][ \A a \in AnimatedAgents, dt \in DtDraws :
          (AgentUpdate(a, dt) /\ agents[a].target_position = agents[a].position) =>
              mainpc' = "run"
      ]_vars

\* the position lies within the world bounds
InsideWorld(position) ==
    /\ WorldBounds.min_x <= position.x
    /\ position.x <= WorldBounds.max_x
    /\ WorldBounds.min_y <= position.y
    /\ position.y <= WorldBounds.max_y

\* C34: an agent that starts inside the world bounds is inside them in every
\* state it reaches, whatever updates and state entries it goes through.
C34_StaysInsideWorld ==
    \A a \in AnimatedAgents : InsideWorld(agents[a].position)

\* the agent is within one unit of its target
Arrived(ag) == Distance(ag.position, ag.target_position) <= Milli

\* C35: an update of an agent in Idle picks a new target and resets
\* state_timer to 0 only when the agent is within one unit of its target and
\* the accumulated state_timer is above 3.0 seconds, and it always does so
\* when the agent is within one unit and the accumulated state_timer has
\* reached 5.0 seconds.
C35_IdlePickTiming ==
    [][ \A a \in AnimatedAgents, dt \in DtDraws :
          (AgentUpdate(a, dt) /\ agents[a].state = "idle") =>
              LET timer == agents[a].state_timer + dt
                  picked == /\ agents'[a].state_timer = 0
                            /\ FreshTarget(agents'[a])
                            /\ mainpc' = "run"
              IN  /\ (agents'[a].state_timer = 0
                        \/ agents'[a].target_position # agents[a].target_position) =>
                         (Arrived(agents[a]) /\ timer > IdleWaitMin * TicksPerSecond)
                  /\ (Arrived(agents[a]) /\ timer >= IdleWaitMax * TicksPerSecond) =>
                         picked
      ]_vars

\* C36: entering Thinking sets the pace target 64 to the right of the
\* position at that moment; an update in Thinking keeps the agent in
\* Thinking and keeps position.y; when the agent is within one unit of its
\* pace target the update negates pace_direction and sets the target exactly
\* 64 from the current position in the new direction, and otherwise it
\* leaves direction and target alone.
C36_ThinkingPaces ==
    [][ \A a \in AnimatedAgents :
          /\ EnterThinking(a) =>
                /\ agents'[a].pace_direction = 1
                /\ agents'[a].target_position =
                       [x |-> agents[a].position.x + PaceDistance * Milli,
                        y |-> agents[a].position.y]
          /\ \A dt \in DtDraws :
                (LongUpdate(a, dt) /\ agents[a].state = "thinking") =>
                    /\ agents'[a].state = "thinking"
                    /\ agents'[a].position.y = agents[a].position.y
                    /\ IF Arrived(agents[a])
                       THEN /\ agents'[a].pace_direction = -agents[a].pace_direction
                            /\ agents'[a].position = agents[a].position
                            /\ agents'[a].target_position =
                                   [x |-> agents[a].position.x
                                            + PaceDistance * Milli * agents'[a].pace_direction,
                                    y |-> agents[a].position.y]
                       ELSE /\ agents'[a].pace_direction = agents[a].pace_direction
                            /\ agents'[a].target_position = agents[a].target_position
      ]_vars

\* an agent that has paced to the right end and back and has turned right
\* again, away from the spawn point it had walked from
C36_Witness ==
    \E a \in AnimatedAgents :
        /\ agents[a].state = "thinking"
        /\ agents[a].pace_direction = 1
        /\ agents[a].state_timer >= 6
        /\ agents[a].target_position.x = agents[a].position.x + PaceDistance * Milli
        /\ agents[a].position # SpawnPosition[a]

\* C37: the list the worker hands to the provider for a request ends with
\* the user turn of the dispatched message and holds each dispatched message
\* once: it has no more user turns than messages were dispatched to the
\* agent up to that request.
C37_UserTurnOnce ==
    [][ \A t \in ThreadIds :
          (threads[t].pc = "avail" /\ threads'[t].pc = "stream") =>
              LET request == threads[t].request
                  messages == Items(threads'[t].messages)
              IN  /\ messages # << >>
                  /\ messages[Len(messages)] = UserTurn(request.message)
                  /\ UserTurns(messages) <= DispatchedFor(request.agent_id, request.rid)
      ]_vars

C39_WorkerExitsAfterStop ==
    <>[](~running) => <>[](\A t \in ThreadIds : ~Alive(t))

\* the client is stopped and its worker has ended, having answered one
\* request and left another in the queue
C39_Witness ==
    /\ ~running
    /\ mainpc = "run"
    /\ \A t \in ThreadIds : ~Alive(t)
    /\ \E t \in ThreadIds : threads[t].pc = "exited"
    /\ request_queue # << >>
    /\ response_queue # << >>


====
